---------------------------- MODULE Spec2Model ----------------------------
(***************************************************************************)
(* Model of the name-card generator (src/src/App.tsx, the React client,    *)
(* and src/unnamed/part_000, the Express preset/font server).              *)
(*                                                                         *)
(* Units.  The program computes with JavaScript numbers; the model uses    *)
(* integers in fixed point:                                                *)
(*   tracking (letterSpacings, em)      hundredths of an em                *)
(*   previewScale                       percent (0.75 is 75)               *)
(*   lengths in mm derived from a scale hundredths of a mm                 *)
(*   other lengths (mm, pt)             whole units                        *)
(*   a scale factor of a stylesheet     a fraction [num, den]              *)
(* Text is a sequence of Unicode code points.                              *)
(* A value that may be absent (a JSON field, a CSS declaration) is a       *)
(* sequence of length 0 (absent) or 1 (present).                           *)
(***************************************************************************)
EXTENDS Integers, Sequences, FiniteSets, TLC

VARIABLES
    cards,            \* useState cards: the record list, in page order
    cfg,              \* the layout state of App: one field per useState
    presets,          \* useState presets: the client's preset list
    currentPresetId,  \* useState currentPresetId ("" when none)
    db,               \* the server's db.json: the stored preset list
    startup,          \* the startup preset fetch: position and data in flight
    inflight,         \* savePreset requests between click and completion
    nextId,           \* number of preset ids drawn so far (Math.random ids)
    ops,              \* number of layout ops and saves so far (bounded)
    view,             \* what was last rendered: medium and the pages
    lastOp,           \* history: the last handler that ran (a loadPreset
                      \* with its preset id, a number input that did
                      \* not parse with its field, any other as "other")
    reading,          \* handleFileUpload: FileReader reads in progress
    fontsDir,         \* the server's FONTS_DIR: the files and their content
    customFonts,      \* useState customFonts: the client's font list
    docFonts,         \* document.fonts: the FontFaces added by the client
    fontLoad,         \* loadFonts of the mount effect: position and data
    fontJobs,         \* processFontFiles / deleteCustomFont calls in progress
    deletes,          \* deletePreset calls between confirm and completion
    alerts,           \* number of failure alert() dialogs shown so far
    dataFiles,        \* names of the files of DATA_DIR itself (db.json)
    handlers,         \* the server's preset handlers: position, request
                      \* and the list each has read (tracked by the
                      \* server specification only)
    refs              \* object identity: the heap of the objects held by
                      \* the layout state and by the client's presets
                      \* (tracked by the sharing specification only)

\* The state of the file import and of the font and delete requests.
ioVars == <<reading, fontsDir, customFonts, docFonts, fontLoad, fontJobs,
            deletes, alerts, dataFiles, handlers, refs>>

vars == <<cards, cfg, presets, currentPresetId, db, startup, inflight,
          nextId, ops, view, lastOp, ioVars>>

(***************************************************************************)
(* Bounds of the model.                                                    *)
(***************************************************************************)
MaxLen == 3
MaxOps == 2
MaxRequests == 1
MaxEdits == 2

(***************************************************************************)
(* Absent / present values.                                                *)
(***************************************************************************)
None == <<>>
Some(v) == <<v>>

Fields == {"chineseName", "englishName", "chineseCompany", "englishCompany"}

(***************************************************************************)
(* Program constants.                                                      *)
(***************************************************************************)
CjkFirst == 19968
CjkLast == 40869
PAGE_WIDTH_MM == 297
PAGE_HEIGHT_MM == 420
FIT_SCALE_PCT == 83
DEFAULT_PREVIEW_SCALE == 75
SLIDER_MIN == 30
SLIDER_MAX == 100
SLIDER_STEP == 5

FIELD_BASELINE_PT ==
    [f \in Fields |->
        CASE f = "chineseName" -> 25
          [] f = "englishName" -> 12
          [] f = "chineseCompany" -> 0 - 5
          [] f = "englishCompany" -> 0 - 10]

DefaultFontSize ==
    [f \in Fields |->
        CASE f = "chineseName" -> 120
          [] f = "englishName" -> 90
          [] f = "chineseCompany" -> 48
          [] f = "englishCompany" -> 36]

DefaultOffsets == [f \in Fields |-> 0]

DefaultFontFamilies ==
    [f \in Fields |->
        IF f \in {"chineseName", "chineseCompany"}
        THEN "TableCardCN" ELSE "TableCardEN"]

DefaultLetterSpacings ==
    [f \in Fields |->
        CASE f = "chineseName" -> 10
          [] f = "englishName" -> 5
          [] f = "chineseCompany" -> 0
          [] f = "englishCompany" -> 0]

DefaultCropOffset == [x |-> 0, y |-> 0]

\* The useState initial values of App.
DefaultConfig ==
    [ fontSize              |-> DefaultFontSize,
      offsets               |-> DefaultOffsets,
      fontFamilies          |-> DefaultFontFamilies,
      letterSpacings        |-> DefaultLetterSpacings,
      globalSpacing         |-> 21,
      printRotate           |-> TRUE,
      previewScale          |-> DEFAULT_PREVIEW_SCALE,
      enableTwoCharWidening |-> TRUE,
      showCropMarks         |-> TRUE,
      showFoldLine          |-> FALSE,
      cropOffset            |-> DefaultCropOffset ]

(***************************************************************************)
(* Text: String.prototype.trim and the two-ideograph regular expression.   *)
(***************************************************************************)
\* WhiteSpace and LineTerminator code points, which trim() strips.
IsWhiteSpace(c) ==
    \/ c \in {9, 10, 11, 12, 13, 32, 160, 5760, 8232, 8233, 8239, 8287,
              12288, 65279}
    \/ c \in 8192..8202

RECURSIVE TrimStart(_)
TrimStart(s) ==
    IF s # <<>> /\ IsWhiteSpace(Head(s)) THEN TrimStart(Tail(s)) ELSE s

RECURSIVE TrimEnd(_)
TrimEnd(s) ==
    IF s # <<>> /\ IsWhiteSpace(s[Len(s)])
    THEN TrimEnd(SubSeq(s, 1, Len(s) - 1))
    ELSE s

Trim(s) == TrimEnd(TrimStart(s))

\* The character class [一-龥].
InCjkClass(c) == CjkFirst <= c /\ c <= CjkLast

\* /^[一-龥]{2}$/.test(s): the matcher walks the subject from its
\* start (^), consumes exactly two class members ({2}) and must then be at
\* the end of the subject ($, no multiline flag).
RECURSIVE MatchClassTimes(_, _, _)
MatchClassTimes(s, pos, n) ==
    IF n = 0 THEN pos
    ELSE IF pos <= Len(s) /\ InCjkClass(s[pos])
         THEN MatchClassTimes(s, pos + 1, n - 1)
         ELSE 0

\* Mutant: the pattern without its end anchor, /^[...]{2}/.
TwoCjkRegexpTestUnanchored(s) == MatchClassTimes(s, 1, 2) # 0

TwoCjkRegexpTest(s) ==
    LET after == MatchClassTimes(s, 1, 2)
    IN  after # 0 /\ after = Len(s) + 1

(***************************************************************************)
(* Numbers in style strings.  A template literal `${n}unit` is the token   *)
(* sequence of the number followed by the unit; a prefix written in the    *)
(* template (the "-" of marginRight) is one more token in front.           *)
(***************************************************************************)
Tok(t, v) == [t |-> t, v |-> v]
MinusTok == Tok("minus", 0)

\* Number -> string: a negative number prints its own minus sign.
NumToString(n) ==
    IF n < 0 THEN <<MinusTok, Tok("num", 0 - n)>> ELSE <<Tok("num", n)>>

Template(prefix, n, unit) == prefix \o NumToString(n) \o <<Tok("unit", unit)>>

\* A CSS <length>: an optional single sign, a number, a unit.  Anything
\* else is an invalid value and the declaration is dropped (None).
ParseLength(toks) ==
    IF Len(toks) = 2 /\ toks[1].t = "num" /\ toks[2].t = "unit"
    THEN Some(toks[1].v)
    ELSE IF Len(toks) = 3 /\ toks[1].t = "minus" /\ toks[2].t = "num"
            /\ toks[3].t = "unit"
         THEN Some(0 - toks[2].v)
         ELSE None

\* The used value of a length property whose initial value is 0.
UsedLength(toks) ==
    LET p == ParseLength(toks) IN IF p = None THEN 0 ELSE p[1]

(***************************************************************************)
(* Typography of one field (the four styled <div>s of a card side).        *)
(***************************************************************************)
\* Mutant: the two-ideograph test in the expression of every field.
TrackingAllFields(f, text, c) ==
    IF c.enableTwoCharWidening /\ TwoCjkRegexpTest(Trim(text))
    THEN 100 + 2 * c.letterSpacings[f]
    ELSE c.letterSpacings[f]

\* The tracking expression of a field's letterSpacing: only chineseName
\* carries the two-ideograph test.
Tracking(f, text, c) ==
    IF f = "chineseName"
    THEN IF c.enableTwoCharWidening /\ TwoCjkRegexpTest(Trim(text))
         THEN 100 + 2 * c.letterSpacings[f]
         ELSE c.letterSpacings[f]
    ELSE c.letterSpacings[f]

LetterSpacingStyle(f, text, c) == Template(<<>>, Tracking(f, text, c), "em")

MarginRightStyle(f, text, c) ==
    Template(<<MinusTok>>, Tracking(f, text, c), "em")

\* Mutant: the anchor alone, without the configured offset.
TranslateYAnchorOnly(f, c) == FIELD_BASELINE_PT[f]

TranslateY(f, c) == c.offsets[f] + FIELD_BASELINE_PT[f]

RenderField(f, card, c) ==
    [ text          |-> card[f],
      fontSize      |-> c.fontSize[f],
      fontFamily    |-> c.fontFamilies[f],
      letterSpacing |-> UsedLength(LetterSpacingStyle(f, card[f], c)),
      translateY    |-> TranslateY(f, c),
      marginRight   |-> UsedLength(MarginRightStyle(f, card[f], c)) ]

\* Mutant: the gap style left out of the top side.
RenderSideTopWithoutGap(side, card, c) ==
    [ side      |-> side,
      className |-> IF side = "top" THEN "card-side card-side-top"
                    ELSE "card-side",
      gap       |-> IF side = "top" THEN 0 - 1 ELSE c.globalSpacing,
      fields    |-> [f \in Fields |-> RenderField(f, card, c)] ]

\* The two card sides: the same four fields, the top one with the extra
\* class card-side-top.
RenderSide(side, card, c) ==
    [ side      |-> side,
      className |-> IF side = "top" THEN "card-side card-side-top"
                    ELSE "card-side",
      gap       |-> c.globalSpacing,
      fields    |-> [f \in Fields |-> RenderField(f, card, c)] ]

(***************************************************************************)
(* Page geometry: inline styles and the @media print style sheet.          *)
(***************************************************************************)
\* Mutant: the margin computed from the scale instead of its complement.
WrapperInlineStyleNoComplement(c) ==
    [ transform    |-> Some(c.previewScale),
      marginBottom |-> Some((0 - PAGE_HEIGHT_MM) * c.previewScale),
      height       |-> Some(PAGE_HEIGHT_MM) ]

\* style={{...}} of .preview-card-wrapper.
WrapperInlineStyle(c) ==
    [ transform    |-> Some(c.previewScale),
      marginBottom |-> Some((0 - PAGE_HEIGHT_MM) * (100 - c.previewScale)),
      height       |-> Some(PAGE_HEIGHT_MM) ]

\* 100vh on the print surface: the height of the page box, @page size A3
\* portrait with margin 0.
PrintViewportHeight == PAGE_HEIGHT_MM

\* The !important declarations of @media print .preview-card-wrapper; the
\* rule declares no transform.
WrapperPrintRule ==
    [ transform    |-> None,
      marginBottom |-> Some(0),
      height       |-> Some(PrintViewportHeight) ]

\* The cascade: an !important declaration of the print sheet beats the
\* inline style; the print sheet applies on the print medium only.
Cascade(inline, rule, medium) ==
    [p \in DOMAIN inline |->
        IF medium = "print" /\ rule[p] # None THEN rule[p] ELSE inline[p]]

WrapperStyle(c, medium) ==
    Cascade(WrapperInlineStyle(c), WrapperPrintRule, medium)

\* Mutant: the page box declared in landscape.
PrintPageBoxLandscape(medium) ==
    IF medium = "print"
    THEN [width |-> Some(PAGE_HEIGHT_MM), height |-> Some(PAGE_WIDTH_MM)]
    ELSE [width |-> None, height |-> None]

\* .print-page: the size declared by the @media print sheet; on screen
\* this source declares none.
PrintPageBox(medium) ==
    IF medium = "print"
    THEN [width |-> Some(PAGE_WIDTH_MM), height |-> Some(PAGE_HEIGHT_MM)]
    ELSE [width |-> None, height |-> None]

\* Mutant: the selector without :not(.print-rotate-mode).
FitScaleUnconditional(c, medium) ==
    IF medium = "print"
    THEN [num |-> FIT_SCALE_PCT, den |-> 100]
    ELSE [num |-> 1, den |-> 1]

\* .print-container:not(.print-rotate-mode) .card-container, print only:
\* transform: scale(0.83); otherwise no scale is declared.
FitScale(c, medium) ==
    IF medium = "print" /\ ~c.printRotate
    THEN [num |-> FIT_SCALE_PCT, den |-> 100]
    ELSE [num |-> 1, den |-> 1]

\* Mutant: the sign written into the template, as marginRight does.
CropMarkPrefixed(corner, vside, hside, c) ==
    [ corner |-> corner,
      vside  |-> vside,
      v      |-> UsedLength(Template(<<MinusTok>>, c.cropOffset.y, "mm")),
      hside  |-> hside,
      h      |-> UsedLength(Template(<<MinusTok>>, c.cropOffset.x, "mm")) ]

\* One crop mark: the two anchored sides and their used lengths (mm).
CropMark(corner, vside, hside, c) ==
    [ corner |-> corner,
      vside  |-> vside,
      v      |-> UsedLength(Template(<<>>, 0 - c.cropOffset.y, "mm")),
      hside  |-> hside,
      h      |-> UsedLength(Template(<<>>, 0 - c.cropOffset.x, "mm")) ]

CropMarks(c) ==
    IF c.showCropMarks
    THEN { CropMark("crop-top-left", "top", "left", c),
           CropMark("crop-top-right", "top", "right", c),
           CropMark("crop-bottom-left", "bottom", "left", c),
           CropMark("crop-bottom-right", "bottom", "right", c) }
    ELSE {}

\* One element of cards.map(...): the wrapper of one record.
RenderPage(card, c, medium) ==
    [ key       |-> card.id,
      wrapper   |-> WrapperStyle(c, medium),
      page      |-> PrintPageBox(medium),
      fitScale  |-> FitScale(c, medium),
      cropMarks |-> CropMarks(c),
      foldLine  |-> c.showFoldLine,
      sides     |-> <<RenderSide("top", card, c),
                      RenderSide("bottom", card, c)>> ]

\* Mutant: the pages produced from the last record to the first.
RenderAllReversed(cs, c, medium) ==
    [i \in 1..Len(cs) |-> RenderPage(cs[Len(cs) + 1 - i], c, medium)]

RenderAll(cs, c, medium) ==
    [i \in 1..Len(cs) |-> RenderPage(cs[i], c, medium)]

\* {index < cards.length - 1 && <div className="card-ui-divider no-print">}:
\* the divider drawn after the page of every record but the last; the
\* print sheet hides .no-print.  Here i is index + 1.
Divider(cs, i, medium) == medium = "screen" /\ i < Len(cs)

\* The style expressions read a key of fontSize, offsets and fontFamilies:
\* reading a key of undefined throws a TypeError out of the render.
RenderThrows(c) ==
    c.fontSize = None \/ c.offsets = None \/ c.fontFamilies = None

\* What the component shows on a medium: the pages and the dividers, or,
\* when the render threw, nothing (React unmounts the tree).
Crashed == [medium |-> "crashed", pages |-> <<>>, dividers |-> <<>>]

Render(cs, c, medium) ==
    IF RenderThrows(c) THEN Crashed
    ELSE [ medium   |-> medium,
           pages    |-> RenderAll(cs, c, medium),
           dividers |-> [i \in 1..Len(cs) |-> Divider(cs, i, medium)] ]

NoView == [medium |-> "none", pages |-> <<>>, dividers |-> <<>>]

\* The component is mounted: no render has thrown.
Mounted == view.medium # "crashed"


(***************************************************************************)
(* Rendering as a specification: the inputs (record list and layout state) *)
(* are drawn from bounded sets and the two render paths are applied.       *)
(***************************************************************************)
\* Code points of the texts: space, ideographic space, "A", the first and
\* the last ideograph of the class, and the code point after the last.
Alphabet == {32, 12288, 65, 19968, 40869, 40870}

Texts == UNION {[1..n -> Alphabet] : n \in 0..MaxLen}

\* Texts of the three fields other than chineseName.
OtherTexts == {<<19968, 40869>>, <<65>>}

\* Base tracking values, in hundredths of an em: <<chineseName, the other
\* three fields>>.
TrackPairs == {<<0 - 60, 0 - 5>>, <<0 - 5, 0>>, <<0, 10>>, <<10, 0 - 60>>}

Card(id, cn, other) ==
    [ id             |-> id,
      chineseName    |-> cn,
      englishName    |-> other,
      chineseCompany |-> other,
      englishCompany |-> other ]

TypoCardLists == {<<Card("c1", cn, o)>> : cn \in Texts, o \in OtherTexts}

TypoConfigs ==
    { [DefaultConfig EXCEPT
          !.letterSpacings = [f \in Fields |->
                                 IF f = "chineseName" THEN t[1] ELSE t[2]],
          !.enableTwoCharWidening = w] :
      t \in TrackPairs, w \in BOOLEAN }

PreviewPicks == {30, 75, 100}
CropPicks == {0 - 2, 0, 3}

PageConfigs ==
    { [DefaultConfig EXCEPT
          !.printRotate = r,
          !.previewScale = ps,
          !.showCropMarks = cm,
          !.showFoldLine = fl,
          !.cropOffset = [x |-> x, y |-> y]] :
      r \in BOOLEAN, ps \in PreviewPicks, cm \in BOOLEAN, fl \in BOOLEAN,
      x \in CropPicks, y \in CropPicks }

SampleCardA == Card("c1", <<19968, 40869>>, <<65>>)
SampleCardB == Card("c2", <<19968, 19968, 40869>>, <<65, 32, 65>>)
SampleCardC == Card("c3", <<>>, <<19968, 40869>>)

PageCardLists ==
    { <<SampleCardA>>, <<SampleCardB>>,
      <<SampleCardA, SampleCardB>>, <<SampleCardB, SampleCardA>>,
      <<SampleCardA, SampleCardB, SampleCardC>>,
      <<SampleCardC, SampleCardA, SampleCardB>> }

\* Layout states that differ in the offsets, the font sizes and the gap.
OffsetMaps ==
    { [f \in Fields |-> 0],
      [f \in Fields |->
          CASE f = "chineseName" -> 0 - 30
            [] f = "englishName" -> 7
            [] f = "chineseCompany" -> 5
            [] f = "englishCompany" -> 10],
      [f \in Fields |-> IF f = "chineseName" THEN 12 ELSE 0 - 12] }

GapPicks == {0, 21, 40}

FaceConfigs ==
    { [DefaultConfig EXCEPT
          !.offsets = o,
          !.globalSpacing = g,
          !.fontSize = fs] :
      o \in OffsetMaps, g \in GapPicks,
      fs \in {DefaultFontSize, [f \in Fields |-> 10]} }

FaceCardLists == { <<SampleCardA>>, <<SampleCardC, SampleCardB>> }

NoOp == [op |-> "init", id |-> ""]
Op(name, id) ==
    IF name \in {"loadPreset", "malformedInput", "requestFailed",
                 "serveUploadFont", "fontRegistered", "deleteFontRequest"}
    THEN [op |-> name, id |-> id]
    ELSE [op |-> "other", id |-> ""]
StartupPending == [pc |-> "pending", data |-> <<>>]

\* loadFonts before its first await has been answered.
FontLoadPending == [pc |-> "fetching", list |-> <<>>, i |-> 0, failed |-> {}]

\* "db.json" and "fonts", the two names in DATA_DIR.
DbJson == <<100, 98, 46, 106, 115, 111, 110>>
FontsSeg == <<102, 111, 110, 116, 115>>

\* Object identity is not tracked.
NoRefs == [heap |-> <<>>, state |-> <<>>, held |-> <<>>, sent |-> {}]

\* No file is being read, FONTS_DIR is empty, no font is listed or
\* registered, no request is in progress, no dialog has been shown.
InitIo ==
    /\ reading = {}
    /\ fontsDir = {}
    /\ customFonts = <<>>
    /\ docFonts = {}
    /\ fontLoad = FontLoadPending
    /\ fontJobs = {}
    /\ deletes = {}
    /\ alerts = 0
    /\ refs = NoRefs
    /\ handlers = {}
    /\ dataFiles = {DbJson}

InitRender ==
    /\ \/ cards \in TypoCardLists /\ cfg \in TypoConfigs
       \/ cards \in PageCardLists /\ cfg \in PageConfigs
       \/ cards \in FaceCardLists /\ cfg \in FaceConfigs
    /\ presets = <<>>
    /\ currentPresetId = ""
    /\ db = <<>>
    /\ startup = StartupPending
    /\ inflight = {}
    /\ nextId = 0
    /\ ops = 0
    /\ view = NoView
    /\ lastOp = NoOp
    /\ InitIo

\* The component's render output on screen (the preview section when the
\* record list is not empty).
RenderScreen ==
    /\ Mounted
    /\ Len(cards) > 0
    /\ view' = Render(cards, cfg, "screen")
    /\ lastOp' = Op("renderScreen", "")
    /\ UNCHANGED <<ioVars, cards, cfg, presets, currentPresetId, db, startup,
                   inflight, nextId, ops>>

\* handlePrint: the same element tree on the print medium (the button is
\* disabled for an empty record list).
RenderPrint ==
    /\ Mounted
    /\ Len(cards) > 0
    /\ view' = Render(cards, cfg, "print")
    /\ lastOp' = Op("handlePrint", "")
    /\ UNCHANGED <<ioVars, cards, cfg, presets, currentPresetId, db, startup,
                   inflight, nextId, ops>>

NextRender == RenderScreen \/ RenderPrint

SpecRender == InitRender /\ [][NextRender]_vars


(***************************************************************************)
(* Number inputs: e.target.value is a sequence of characters.              *)
(***************************************************************************)
DigitChars == <<"0", "1", "2", "3", "4", "5", "6", "7", "8", "9">>
IsDigit(ch) == \E d \in 1..10 : DigitChars[d] = ch
DigitVal(ch) == (CHOOSE d \in 1..10 : DigitChars[d] = ch) - 1

\* The longest prefix of s, from position pos, made of digits: the position
\* after it.
RECURSIVE DigitsEnd(_, _)
DigitsEnd(s, pos) ==
    IF pos <= Len(s) /\ IsDigit(s[pos]) THEN DigitsEnd(s, pos + 1) ELSE pos

\* The value of the digits s[from..to-1].
RECURSIVE DigitsValue(_, _, _)
DigitsValue(s, from, to) ==
    IF from >= to THEN 0
    ELSE DigitsValue(s, from, to - 1) * 10 + DigitVal(s[to - 1])

\* The decimal digits of a natural number.
RECURSIVE NatToChars(_)
NatToChars(n) ==
    IF n < 10 THEN <<DigitChars[n + 1]>>
    ELSE NatToChars(n \div 10) \o <<DigitChars[(n % 10) + 1]>>

\* parseInt(s): an optional sign and the digits that follow; None is NaN.
ParseInt(s) ==
    LET neg   == s # <<>> /\ s[1] = "-"
        start == IF s # <<>> /\ s[1] \in {"-", "+"} THEN 2 ELSE 1
        stop  == DigitsEnd(s, start)
    IN  IF stop = start THEN None
        ELSE Some((IF neg THEN 0 - 1 ELSE 1) * DigitsValue(s, start, stop))

\* parseFloat(s), in hundredths: sign, digits, and after a "." up to two
\* more digits (the step of the tracking inputs is 0.01); None is NaN.
ParseFloat(s) ==
    LET neg    == s # <<>> /\ s[1] = "-"
        start  == IF s # <<>> /\ s[1] \in {"-", "+"} THEN 2 ELSE 1
        stop   == DigitsEnd(s, start)
        hasDot == stop <= Len(s) /\ s[stop] = "."
        fstop  == IF hasDot THEN DigitsEnd(s, stop + 1) ELSE stop
        nfrac  == IF hasDot THEN fstop - (stop + 1) ELSE 0
        whole  == DigitsValue(s, start, stop)
        frac   == IF nfrac = 0 THEN 0
                  ELSE IF nfrac = 1 THEN 10 * DigitVal(s[stop + 1])
                  ELSE 10 * DigitVal(s[stop + 1]) + DigitVal(s[stop + 2])
    IN  IF stop = start /\ nfrac = 0 THEN None
        ELSE Some((IF neg THEN 0 - 1 ELSE 1) * (100 * whole + frac))

\* Mutant: the parsed value passed on without || 0 (NaN stays in place,
\* written here as the value -1).
OrZeroMissing(m) == IF m = None THEN 0 - 1 ELSE m[1]

\* x || 0 on a number: NaN and 0 give 0.
OrZero(m) == IF m = None \/ m[1] = 0 THEN 0 ELSE m[1]

(***************************************************************************)
(* Presets: the snapshot taken by savePreset and its use by loadPreset.    *)
(* A preset is [id, name, settings, savedFrom]; savedFrom is a history     *)
(* field (the whole layout state at the click, None for a preset that      *)
(* this client did not save) that no handler reads.                        *)
(***************************************************************************)
\* Mutant: the snapshot taken without the offsets.
PresetSettingsWithoutOffsets(c) ==
    [ fontSize              |-> c.fontSize,
      offsets               |-> DefaultOffsets,
      fontFamilies          |-> c.fontFamilies,
      letterSpacings        |-> Some(c.letterSpacings),
      enableTwoCharWidening |-> Some(c.enableTwoCharWidening),
      globalSpacing         |-> c.globalSpacing,
      showCropMarks         |-> Some(c.showCropMarks),
      showFoldLine          |-> Some(c.showFoldLine),
      cropOffset            |-> Some(c.cropOffset),
      previewScale          |-> Some(c.previewScale) ]

\* settings of newPreset.
PresetSettings(c) ==
    [ fontSize              |-> c.fontSize,
      offsets               |-> c.offsets,
      fontFamilies          |-> c.fontFamilies,
      letterSpacings        |-> Some(c.letterSpacings),
      enableTwoCharWidening |-> Some(c.enableTwoCharWidening),
      globalSpacing         |-> c.globalSpacing,
      showCropMarks         |-> Some(c.showCropMarks),
      showFoldLine          |-> Some(c.showFoldLine),
      cropOffset            |-> Some(c.cropOffset),
      previewScale          |-> Some(c.previewScale) ]

\* Mutant: a || d on a boolean (false is falsy).
OrElseBoolean(m, d) == IF m = None \/ m[1] = FALSE THEN d ELSE m[1]

\* a ?? d
Nullish(m, d) == IF m = None THEN d ELSE m[1]

\* a || d where a, when present, is an object (always truthy).
OrElseObject(m, d) == IF m = None THEN d ELSE m[1]

\* a || d where a, when present, is a number (0 is falsy).
OrElseNumber(m, d) == IF m = None \/ m[1] = 0 THEN d ELSE m[1]

\* The setters of loadPreset applied to layout state c; printRotate has no
\* setter call there.
LoadedConfig(c, s) ==
    [ c EXCEPT
        !.fontSize = s.fontSize,
        !.offsets = s.offsets,
        !.fontFamilies = s.fontFamilies,
        !.letterSpacings = OrElseObject(s.letterSpacings, DefaultLetterSpacings),
        !.enableTwoCharWidening = Nullish(s.enableTwoCharWidening, TRUE),
        !.showCropMarks = Nullish(s.showCropMarks, TRUE),
        !.showFoldLine = Nullish(s.showFoldLine, FALSE),
        !.cropOffset = OrElseObject(s.cropOffset, DefaultCropOffset),
        !.globalSpacing = s.globalSpacing,
        !.previewScale = OrElseNumber(s.previewScale, DEFAULT_PREVIEW_SCALE) ]

\* The setters of resetToDefault applied to layout state c.
ResetConfig(c) == [DefaultConfig EXCEPT !.printRotate = c.printRotate]

\* findIndex: the first index whose element satisfies the test, 0 for -1.
FindIndexById(list, id) ==
    IF \E i \in DOMAIN list : list[i].id = id
    THEN CHOOSE i \in DOMAIN list :
             /\ list[i].id = id
             /\ \A j \in 1..(i - 1) : list[j].id # id
    ELSE 0

FindIndexByName(list, name) ==
    IF \E i \in DOMAIN list : list[i].name = name
    THEN CHOOSE i \in DOMAIN list :
             /\ list[i].name = name
             /\ \A j \in 1..(i - 1) : list[j].name # name
    ELSE 0

\* Mutant: the body is always pushed.
ServerUpsertPushing(list, p) == Append(list, p)

\* POST /api/presets: replace the entry with the same id, or push.
ServerUpsert(list, p) ==
    LET idx == FindIndexById(list, p.id)
    IN  IF idx > 0 THEN [list EXCEPT ![idx] = p] ELSE Append(list, p)

\* The setPresets updater of savePreset: the same, on the client's list.
ClientUpsert(prev, p) ==
    LET idx == FindIndexById(prev, p.id)
    IN  IF idx > 0 THEN [prev EXCEPT ![idx] = p] ELSE Append(prev, p)

\* Math.random().toString(36).substr(2, 9): an id not drawn before.
NewId == "r" \o ToString(nextId + 1)

(***************************************************************************)
(* Inputs of the client specification.                                     *)
(***************************************************************************)
PresetNames == {"A"}
IntInputs == {<<"x">>, <<"1", "2">>}
FloatInputs == {<<>>, <<"-", "0", ".", "0", "5">>}
FontChoices == {"inherit"}
EditKeys == {"chineseName"}
SliderValues ==
    {v \in SLIDER_MIN..SLIDER_MAX : (v - SLIDER_MIN) % SLIDER_STEP = 0}
SliderPicks == {v \in SliderValues : v \in {SLIDER_MIN, SLIDER_MAX}}

\* Settings of presets written to the store by other clients of
\* POST /api/presets: one without the optional fields, one with all of them.
LegacySettings ==
    [ fontSize              |-> [f \in Fields |-> 100],
      offsets               |-> DefaultOffsets,
      fontFamilies          |-> DefaultFontFamilies,
      letterSpacings        |-> None,
      enableTwoCharWidening |-> None,
      globalSpacing         |-> 10,
      showCropMarks         |-> None,
      showFoldLine          |-> None,
      cropOffset            |-> None,
      previewScale          |-> None ]

ExplicitSettings ==
    [ fontSize              |-> DefaultFontSize,
      offsets               |-> [f \in Fields |-> 4],
      fontFamilies          |-> DefaultFontFamilies,
      letterSpacings        |-> Some([f \in Fields |-> 20]),
      enableTwoCharWidening |-> Some(FALSE),
      globalSpacing         |-> 21,
      showCropMarks         |-> Some(FALSE),
      showFoldLine          |-> Some(TRUE),
      cropOffset            |-> Some([x |-> 2, y |-> 0 - 1]),
      previewScale          |-> Some(150) ]

LegacyPreset ==
    [id |-> "f1", name |-> "A", settings |-> LegacySettings,
     savedFrom |-> None]
ExplicitPreset ==
    [id |-> "f2", name |-> "F", settings |-> ExplicitSettings,
     savedFrom |-> None]

\* What db.json may hold when the client starts: nothing, or presets
\* posted earlier.
InitialStores == { <<>>, <<LegacyPreset, ExplicitPreset>> }

(***************************************************************************)
(* The client and the preset store as a state machine.                     *)
(***************************************************************************)
Init ==
    /\ cards = <<>>
    /\ cfg = DefaultConfig
    /\ presets = <<>>
    /\ currentPresetId = ""
    /\ db \in InitialStores
    /\ startup = StartupPending
    /\ inflight = {}
    /\ nextId = 0
    /\ ops = 0
    /\ view = NoView
    /\ lastOp = NoOp
    /\ InitIo

\* A layout edit: only the layout state, the operation count and lastOp
\* change.
Edit(name, c) ==
    /\ ops < MaxOps
    /\ ops' = ops + 1
    /\ cfg' = c
    /\ lastOp' = Op(name, "")
    /\ UNCHANGED <<ioVars, cards, presets, currentPresetId, db, startup, inflight,
                   nextId, view>>

\* The onChange handler of a number input: parsed is parseInt or parseFloat
\* of e.target.value, and the setter is called with parsed || 0.  lastOp
\* records the input whose text was NaN.
NumberInput(input, parsed, c) ==
    /\ ops < MaxOps
    /\ ops' = ops + 1
    /\ cfg' = c
    /\ lastOp' = IF parsed = None THEN Op("malformedInput", input)
                 ELSE Op("numberInput", input)
    /\ UNCHANGED <<ioVars, cards, presets, currentPresetId, db, startup, inflight,
                   nextId, view>>

SetFontSize ==
    \E k \in EditKeys, txt \in IntInputs :
        NumberInput("fontSize." \o k, ParseInt(txt),
                    [cfg EXCEPT !.fontSize[k] = OrZero(ParseInt(txt))])

SetOffsets ==
    \E k \in EditKeys, txt \in IntInputs :
        NumberInput("offsets." \o k, ParseInt(txt),
                    [cfg EXCEPT !.offsets[k] = OrZero(ParseInt(txt))])

SetLetterSpacings ==
    \E k \in EditKeys, txt \in FloatInputs :
        NumberInput("letterSpacings." \o k, ParseFloat(txt),
                    [cfg EXCEPT !.letterSpacings[k] = OrZero(ParseFloat(txt))])

SetGlobalSpacing ==
    \E txt \in IntInputs :
        NumberInput("globalSpacing", ParseInt(txt),
                    [cfg EXCEPT !.globalSpacing = OrZero(ParseInt(txt))])

\* The two crop-offset inputs exist only while showCropMarks is on.
SetCropOffset ==
    /\ cfg.showCropMarks
    /\ \E txt \in IntInputs :
        \/ NumberInput("cropOffset.x", ParseInt(txt),
                       [cfg EXCEPT !.cropOffset.x = OrZero(ParseInt(txt))])
        \/ NumberInput("cropOffset.y", ParseInt(txt),
                       [cfg EXCEPT !.cropOffset.y = OrZero(ParseInt(txt))])

SetFontFamilies ==
    \E k \in EditKeys, val \in FontChoices :
        Edit("setFontFamilies", [cfg EXCEPT !.fontFamilies[k] = val])

\* The zoom slider: value is one of the steps of the range input, and the
\* handler stores parseInt(value) / 100.
SetPreviewScale ==
    \E v \in SliderPicks :
        Edit("setPreviewScale",
             [cfg EXCEPT !.previewScale = ParseInt(NatToChars(v))[1]])

TogglePrintRotate ==
    Edit("setPrintRotate", [cfg EXCEPT !.printRotate = ~cfg.printRotate])

ToggleTwoCharWidening ==
    Edit("setEnableTwoCharWidening",
         [cfg EXCEPT !.enableTwoCharWidening = ~cfg.enableTwoCharWidening])

ToggleFoldLine ==
    Edit("setShowFoldLine", [cfg EXCEPT !.showFoldLine = ~cfg.showFoldLine])

ToggleCropMarks ==
    Edit("setShowCropMarks", [cfg EXCEPT !.showCropMarks = ~cfg.showCropMarks])

\* savePreset up to its await: prompt, snapshot, overwrite confirmation,
\* and the POST is sent.  A cancelled prompt or a declined confirmation
\* returns with nothing changed.
SavePreset ==
    \E name \in PresetNames :
        LET idx == FindIndexByName(presets, name)
            id  == IF idx > 0 THEN presets[idx].id ELSE NewId
            newPreset == [ id |-> id, name |-> name,
                           settings |-> PresetSettings(cfg),
                           savedFrom |-> Some(cfg) ]
        IN  /\ ops < MaxOps
            /\ ops' = ops + 1
            /\ nextId' = nextId + 1
            /\ inflight' = inflight \cup
                   {[req |-> nextId + 1, preset |-> newPreset,
                     stage |-> "sent"]}
            /\ lastOp' = Op("savePreset", id)
            /\ UNCHANGED <<ioVars, cards, cfg, presets, currentPresetId, db, startup,
                           view>>

\* The server handles the POST of a savePreset.
ServePost ==
    \E r \in inflight :
        /\ r.stage = "sent"
        /\ db' = ServerUpsert(db, r.preset)
        /\ inflight' = (inflight \ {r}) \cup {[r EXCEPT !.stage = "stored"]}
        /\ lastOp' = Op("servePost", r.preset.id)
        /\ UNCHANGED <<ioVars, cards, cfg, presets, currentPresetId, startup, nextId,
                       ops, view>>

\* savePreset after its await: the list is updated and the preset becomes
\* the current one.
SavePresetDone ==
    \E r \in inflight :
        /\ r.stage = "stored"
        /\ presets' = ClientUpsert(presets, r.preset)
        /\ currentPresetId' = r.preset.id
        /\ inflight' = inflight \ {r}
        /\ lastOp' = Op("savePresetDone", r.preset.id)
        /\ UNCHANGED <<ioVars, cards, cfg, db, startup, nextId, ops, view>>

\* GET /api/presets of the mount effect is answered with the stored list.
ServeGetPresets ==
    /\ startup.pc = "pending"
    /\ startup' = [pc |-> "responded", data |-> db]
    /\ lastOp' = Op("serveGetPresets", "")
    /\ UNCHANGED <<ioVars, cards, cfg, presets, currentPresetId, db, inflight,
                   nextId, ops, view>>

\* .then(data => setPresets(data)) of the mount effect.
GetPresetsDone ==
    /\ startup.pc = "responded"
    /\ presets' = startup.data
    /\ startup' = [pc |-> "done", data |-> <<>>]
    /\ lastOp' = Op("getPresetsDone", "")
    /\ UNCHANGED <<ioVars, cards, cfg, currentPresetId, db, inflight, nextId, ops,
                   view>>

\* loadPreset(p.id), clicked on an entry of the preset menu.
LoadPreset ==
    \E i \in DOMAIN presets :
        LET presetId == presets[i].id
            preset   == presets[FindIndexById(presets, presetId)]
        IN  /\ Mounted
            /\ cfg' = LoadedConfig(cfg, preset.settings)
            /\ currentPresetId' = presetId
            /\ lastOp' = Op("loadPreset", presetId)
            /\ UNCHANGED <<ioVars, cards, presets, db, startup, inflight, nextId,
                           ops, view>>

ResetToDefault ==
    /\ cfg' = ResetConfig(cfg)
    /\ currentPresetId' = ""
    /\ lastOp' = Op("resetToDefault", "")
    /\ UNCHANGED <<ioVars, cards, presets, db, startup, inflight, nextId, ops,
                   view>>

Next ==
    \/ SetFontSize
    \/ SetOffsets
    \/ SetLetterSpacings
    \/ SetGlobalSpacing
    \/ SetCropOffset
    \/ SetFontFamilies
    \/ SetPreviewScale
    \/ TogglePrintRotate
    \/ ToggleTwoCharWidening
    \/ ToggleFoldLine
    \/ ToggleCropMarks
    \/ SavePreset
    \/ ServePost
    \/ SavePresetDone
    \/ ServeGetPresets
    \/ GetPresetsDone
    \/ LoadPreset
    \/ ResetToDefault

Spec == Init /\ [][Next]_vars


(***************************************************************************)
(* The record list: manual add, spreadsheet import, edit, remove, reorder  *)
(* and clear, with the preset menu and the two render paths.               *)
(***************************************************************************)
\* The texts of the record made by addEmptyCard.
EmptyCardChineseName == <<22995, 21517>>
EmptyCardEnglishName == <<78, 97, 109, 101>>
EmptyCardChineseCompany == <<25152, 22312, 21333, 20301, 47, 37096, 38376>>
EmptyCardEnglishCompany ==
    <<79, 114, 103, 97, 110, 105, 122, 97, 116, 105, 111, 110, 32, 78, 97,
      109, 101>>

\* The k-th id drawn from Math.random for a record in this step.
NewCardId(k) == "k" \o ToString(nextId + k)

\* Column headers of a sheet, written in ASCII: cnName is the header
\* "中文名", Name "Name", xingming "姓名", enName "英文名", EnglishName
\* "English Name", pinyin "拼音", cnCompany "中文公司", Company "Company",
\* danwei "单位", enCompany "英文公司", EnglishCompany "English Company",
\* remark a header that is in no alias list.
Headers ==
    {"cnName", "Name", "xingming", "enName", "EnglishName", "pinyin",
     "cnCompany", "Company", "danwei", "enCompany", "EnglishCompany",
     "remark"}

\* The alias lists of the four fields, in the order of the || chains.
Aliases ==
    [f \in Fields |->
        CASE f = "chineseName" -> <<"cnName", "Name", "xingming">>
          [] f = "englishName" -> <<"enName", "EnglishName", "pinyin">>
          [] f = "chineseCompany" -> <<"cnCompany", "Company", "danwei">>
          [] f = "englishCompany" -> <<"enCompany", "EnglishCompany">>]

\* A cell of a row object: absent (None), a text (Some(text)) or a number.
NumberCell(n) == <<"number", n>>
IsNumberCell(cell) == Len(cell) = 2

\* String(n) for a number cell: its decimal digits.
RECURSIVE NumberText(_)
NumberText(n) ==
    IF n < 10 THEN <<48 + n>>
    ELSE NumberText(n \div 10) \o <<48 + (n % 10)>>

\* A cell value is truthy: present, and neither '' nor 0.
Truthy(cell) ==
    /\ cell # None
    /\ IF IsNumberCell(cell) THEN cell[2] # 0 ELSE cell[1] # <<>>

\* Mutant: the first cell of the chain that is present, whatever it holds.
RECURSIVE FirstPresent(_, _)
FirstPresent(item, hs) ==
    IF hs = <<>> THEN <<>>
    ELSE IF item[Head(hs)] # None
         THEN IF IsNumberCell(item[Head(hs)])
              THEN NumberText(item[Head(hs)][2]) ELSE item[Head(hs)][1]
         ELSE FirstPresent(item, Tail(hs))

\* String(item[h1] || item[h2] || ... || ''): the first cell of the chain
\* that is truthy, as a text; else the empty text.
RECURSIVE FirstTruthy(_, _)
FirstTruthy(item, hs) ==
    IF hs = <<>> THEN <<>>
    ELSE IF Truthy(item[Head(hs)])
         THEN IF IsNumberCell(item[Head(hs)])
              THEN NumberText(item[Head(hs)][2]) ELSE item[Head(hs)][1]
         ELSE FirstTruthy(item, Tail(hs))

\* data.map(item => ({id, chineseName, ...})): row k of the sheet.
MappedCard(item, k) ==
    [ id             |-> NewCardId(k),
      chineseName    |-> FirstTruthy(item, Aliases["chineseName"]),
      englishName    |-> FirstTruthy(item, Aliases["englishName"]),
      chineseCompany |-> FirstTruthy(item, Aliases["chineseCompany"]),
      englishCompany |-> FirstTruthy(item, Aliases["englishCompany"]) ]

MappedData(data) == [k \in 1..Len(data) |-> MappedCard(data[k], k)]

\* Rows of the sheets offered to the import: a row under the main headers,
\* a row under alias headers with an empty first cell, a row with no
\* known header at all, and a row with number cells.
RowOf(cells) == [h \in Headers |-> IF h \in DOMAIN cells THEN cells[h] ELSE None]

RowMain ==
    RowOf([cnName |-> Some(<<19968, 40869>>), enName |-> Some(<<65>>),
           cnCompany |-> Some(<<19968>>), enCompany |-> Some(<<65, 32, 65>>)])
RowAlias ==
    RowOf([cnName |-> Some(<<>>), xingming |-> Some(<<19968, 19968, 40869>>),
           pinyin |-> Some(<<65>>), Company |-> Some(<<65>>)])
RowUnknown == RowOf([remark |-> Some(<<65>>)])
\* Number cells: 0 under the first header of a chain, 12 under another.
RowNumbers ==
    RowOf([cnName |-> NumberCell(0), Name |-> Some(<<66>>),
           EnglishName |-> NumberCell(12), remark |-> NumberCell(0)])

Sheets == { <<RowMain, RowUnknown>>, <<RowAlias>>, <<RowNumbers>> }

\* Texts typed into a field of a record.
EditTexts == { <<>>, <<12288, 19968, 40869>> }

\* A preset posted to the store without fontSize, offsets and fontFamilies.
BrokenSettings ==
    [ fontSize              |-> None,
      offsets               |-> None,
      fontFamilies          |-> None,
      letterSpacings        |-> None,
      enableTwoCharWidening |-> None,
      globalSpacing         |-> 21,
      showCropMarks         |-> None,
      showFoldLine          |-> None,
      cropOffset            |-> None,
      previewScale          |-> None ]

BrokenPreset ==
    [id |-> "f3", name |-> "B", settings |-> BrokenSettings,
     savedFrom |-> None]

RosterStores == { <<LegacyPreset>>, <<LegacyPreset, BrokenPreset>> }

InitRoster ==
    /\ cards = <<>>
    /\ cfg = DefaultConfig
    /\ presets = <<>>
    /\ currentPresetId = ""
    /\ db \in RosterStores
    /\ startup = StartupPending
    /\ inflight = {}
    /\ nextId = 0
    /\ ops = 0
    /\ view = NoView
    /\ lastOp = NoOp
    /\ InitIo

\* A handler that changes the record list only.
SetCards(name, cs, drawn) ==
    /\ Mounted
    /\ ops < MaxOps
    /\ ops' = ops + 1
    /\ cards' = cs
    /\ nextId' = nextId + drawn
    /\ lastOp' = Op(name, "")
    /\ UNCHANGED <<ioVars, cfg, presets, currentPresetId, db, startup,
                   inflight, view>>

AddEmptyCard ==
    SetCards("addEmptyCard",
             <<[ id             |-> NewCardId(1),
                 chineseName    |-> EmptyCardChineseName,
                 englishName    |-> EmptyCardEnglishName,
                 chineseCompany |-> EmptyCardChineseCompany,
                 englishCompany |-> EmptyCardEnglishCompany ]>> \o cards,
             1)

\* handleFileUpload: a file was chosen and the FileReader is started; the
\* onload callback closes over the record list of this render.
HandleFileUpload ==
    \E data \in Sheets :
        /\ Mounted
        /\ ops < MaxOps
        /\ ops' = ops + 1
        /\ reading' = reading \cup {[cards |-> cards, data |-> data]}
        /\ lastOp' = Op("handleFileUpload", "")
        /\ UNCHANGED <<dataFiles, handlers, refs, cards, cfg, presets, currentPresetId, db, startup,
                       inflight, nextId, view, fontsDir, customFonts,
                       docFonts, fontLoad, fontJobs, deletes, alerts>>

\* reader.onload: setCards([...cards, ...mappedData]).
ReaderOnLoad ==
    \E r \in reading :
        /\ Mounted
        /\ cards' = r.cards \o MappedData(r.data)
        /\ nextId' = nextId + Len(r.data)
        /\ reading' = reading \ {r}
        /\ lastOp' = Op("readerOnLoad", "")
        /\ UNCHANGED <<dataFiles, handlers, refs, cfg, presets, currentPresetId, db, startup, inflight,
                       ops, view, fontsDir, customFonts, docFonts, fontLoad,
                       fontJobs, deletes, alerts>>

\* updateCard(id, field, value), from the four inputs of a record.
UpdateCard ==
    \E i \in DOMAIN cards, f \in Fields, value \in EditTexts :
        SetCards("updateCard",
                 [k \in DOMAIN cards |->
                     IF cards[k].id = cards[i].id
                     THEN [cards[k] EXCEPT ![f] = value]
                     ELSE cards[k]],
                 0)

\* The elements of a sequence that satisfy a test, in their order.
RECURSIVE FilterOutId(_, _)
FilterOutId(cs, id) ==
    IF cs = <<>> THEN <<>>
    ELSE IF Head(cs).id = id THEN FilterOutId(Tail(cs), id)
         ELSE <<Head(cs)>> \o FilterOutId(Tail(cs), id)

RemoveCard ==
    \E i \in DOMAIN cards :
        SetCards("removeCard", FilterOutId(cards, cards[i].id), 0)

\* The orders of a list: one sequence per bijection of its indices.
Orders(cs) ==
    { [k \in DOMAIN cs |-> cs[pi[k]]] :
        pi \in { q \in [DOMAIN cs -> DOMAIN cs] :
                    \A a, b \in DOMAIN cs : q[a] = q[b] => a = b } }

\* Reorder.Group onReorder={setCards}: the list in its new order.
ReorderCards ==
    \E cs \in Orders(cards) :
        /\ cs # cards
        /\ SetCards("reorder", cs, 0)

\* clearAll, confirmed.
ClearAll ==
    /\ Len(cards) > 0
    /\ SetCards("clearAll", <<>>, 0)

NextRoster ==
    \/ ServeGetPresets
    \/ GetPresetsDone
    \/ LoadPreset
    \/ AddEmptyCard
    \/ HandleFileUpload
    \/ ReaderOnLoad
    \/ UpdateCard
    \/ RemoveCard
    \/ ReorderCards
    \/ ClearAll
    \/ RenderScreen
    \/ RenderPrint

SpecRoster == InitRoster /\ [][NextRoster]_vars

(***************************************************************************)
(* The font store (server) and the font handlers of the client.  A file    *)
(* name is a sequence of UTF-16 code units, as a JavaScript string is; the *)
(* content of a file is named by a string ("junk" is content that is not   *)
(* a font).                                                                *)
(***************************************************************************)
\* The class [a-zA-Z0-9_一-龥.] of the filename sanitiser.
IsSafeChar(c) ==
    \/ c \in 97..122
    \/ c \in 65..90
    \/ c \in 48..57
    \/ c = 95
    \/ InCjkClass(c)
    \/ c = 46

\* Mutant: the characters outside the class are dropped.
SafeNameDropping(originalname) == SelectSeq(originalname, IsSafeChar)

\* originalname.replace(/[^a-zA-Z0-9_一-龥.]/g, '_')
SafeName(originalname) ==
    [i \in DOMAIN originalname |->
        IF IsSafeChar(originalname[i]) THEN originalname[i] ELSE 95]

\* f.split('.')[0]
RECURSIVE BeforeFirstDot(_)
BeforeFirstDot(f) ==
    IF f = <<>> \/ Head(f) = 46 THEN <<>>
    ELSE <<Head(f)>> \o BeforeFirstDot(Tail(f))

ToLower(c) == IF c \in 65..90 THEN c + 32 ELSE c

\* ".ttf", ".otf", ".woff", ".woff2"
FontSuffixes ==
    { <<46, 116, 116, 102>>, <<46, 111, 116, 102>>,
      <<46, 119, 111, 102, 102>>, <<46, 119, 111, 102, 102, 50>> }

\* /\.(ttf|otf|woff|woff2)$/i.test(f)
HasFontExtension(f) ==
    \E suf \in FontSuffixes :
        /\ Len(f) >= Len(suf)
        /\ [i \in 1..Len(suf) |-> ToLower(f[Len(f) - Len(suf) + i])] = suf

\* `/api/fonts/${f}`
FontUrl(f) == [base |-> "/api/fonts/", file |-> f]

\* The font object of a response or of a list entry.
FontMeta(f) == [name |-> BeforeFirstDot(f), fileName |-> f, url |-> FontUrl(f)]

\* multer diskStorage: the file is written under its sanitised name, over
\* a file of that name.
WriteFile(dir, file) ==
    {e \in dir : e.fileName # SafeName(file.originalname)}
        \cup {[fileName |-> SafeName(file.originalname), data |-> file.data]}

\* fileName.split('/'): the segments of a path (POSIX separator).
RECURSIVE SplitSlash(_)
SplitSlash(s) ==
    IF \A i \in DOMAIN s : s[i] # 47 THEN <<s>>
    ELSE LET k == CHOOSE i \in DOMAIN s :
                      s[i] = 47 /\ \A j \in 1..(i - 1) : s[j] # 47
         IN  <<SubSeq(s, 1, k - 1)>> \o SplitSlash(SubSeq(s, k + 1, Len(s)))

\* path.join normalises: "" and "." are dropped, ".." leaves the directory
\* reached so far.  stack is the path below DATA_DIR, up the number of
\* levels above DATA_DIR.
RECURSIVE WalkSegments(_, _, _)
WalkSegments(stack, up, segs) ==
    IF segs = <<>> THEN [up |-> up, segs |-> stack]
    ELSE IF Head(segs) \in {<<>>, <<46>>}
         THEN WalkSegments(stack, up, Tail(segs))
    ELSE IF Head(segs) = <<46, 46>>
         THEN IF stack = <<>>
              THEN WalkSegments(<<>>, up + 1, Tail(segs))
              ELSE WalkSegments(SubSeq(stack, 1, Len(stack) - 1), up,
                                Tail(segs))
    ELSE WalkSegments(Append(stack, Head(segs)), up, Tail(segs))

\* path.join(FONTS_DIR, req.params.fileName), FONTS_DIR being DATA_DIR/fonts.
PathJoin(fileName) == WalkSegments(<<FontsSeg>>, 0, SplitSlash(fileName))

\* fs.remove of path.join(FONTS_DIR, fileName) when it exists: what is left
\* of the files of FONTS_DIR.  fs.remove removes a directory with all that
\* is in it.
RemoveFile(dir, fileName) ==
    LET t == PathJoin(fileName)
    IN  IF t.segs = <<>> \/ (t.up = 0 /\ t.segs = <<FontsSeg>>) THEN {}
        ELSE IF t.up = 0 /\ Len(t.segs) = 2 /\ t.segs[1] = FontsSeg
             THEN {e \in dir : e.fileName # t.segs[2]}
        ELSE dir

\* The same, for the files of DATA_DIR itself.
RemoveDataFile(files, fileName) ==
    LET t == PathJoin(fileName)
    IN  IF t.segs = <<>> THEN {}
        ELSE IF t.up = 0 /\ Len(t.segs) = 1 THEN files \ {t.segs[1]}
        ELSE files

\* GET /api/fonts: the entries of readdir that pass the extension test, in
\* the order readdir gives them (an order the file system chooses).
FontListings(dir) ==
    LET names == {e.fileName : e \in {x \in dir : HasFontExtension(x.fileName)}}
    IN  { [k \in 1..Cardinality(names) |-> FontMeta(q[k])] :
            q \in { r \in [1..Cardinality(names) -> names] :
                       \A a, b \in 1..Cardinality(names) :
                           r[a] = r[b] => a = b } }

\* font.load() of url(...) can resolve only when the file is served and
\* its content is a font.
CanLoad(dir, url) ==
    \E e \in dir : e.fileName = url.file /\ e.data # "junk"

\* The FontFace added to document.fonts.
LoadedFace(dir, font) ==
    [ family |-> font.name,
      url    |-> font.url,
      data   |-> (CHOOSE e \in dir : e.fileName = font.url.file).data ]

\* prev.filter(f => f.name !== fontData.name) followed by fontData.
RECURSIVE FilterOutName(_, _)
FilterOutName(prev, name) ==
    IF prev = <<>> THEN <<>>
    ELSE IF Head(prev).name = name THEN FilterOutName(Tail(prev), name)
         ELSE <<Head(prev)>> \o FilterOutName(Tail(prev), name)

\* Mutant: the uploaded font appended without removing its namesakes.
AddFontKeepingOld(prev, fontData) == Append(prev, fontData)

AddFont(prev, fontData) == Append(FilterOutName(prev, fontData.name), fontData)

\* prev.filter(f => f.fileName !== fileName)
RECURSIVE FilterOutFileName(_, _)
FilterOutFileName(prev, fileName) ==
    IF prev = <<>> THEN <<>>
    ELSE IF Head(prev).fileName = fileName
         THEN FilterOutFileName(Tail(prev), fileName)
         ELSE <<Head(prev)>> \o FilterOutFileName(Tail(prev), fileName)

\* Mutant: a failure that shows no dialog.
AlertSilenced(n) == n

\* alert(...) of a catch block.
Alert(n) == n + 1

\* Files on the server when the client starts, and files the user drops on
\* the font manager: "A.ttf" again with other content; "n .txt", which is
\* no font, followed by "A.otf".
FileAttf == <<65, 46, 116, 116, 102>>
FileAotf == <<65, 46, 111, 116, 102>>
FileBwoff == <<66, 46, 119, 111, 102, 102>>
FileNtxt == <<110, 32, 46, 116, 120, 116>>

InitialFontsDir == {[fileName |-> FileAttf, data |-> "font1"]}

InitialFontsDirTwo ==
    { [fileName |-> FileAttf, data |-> "font1"],
      [fileName |-> FileBwoff, data |-> "font1"] }

FontDrops ==
    { <<[originalname |-> FileAttf, data |-> "font2"]>>,
      <<[originalname |-> FileNtxt, data |-> "junk"],
        [originalname |-> FileAotf, data |-> "font2"]>> }

\* Mutant: one try around the whole loop, so the first failure leaves it.
AfterStartupFailureAborting(fl) ==
    [fl EXCEPT !.failed = fl.failed \cup {fl.i}, !.pc = "done"]

\* catch of one iteration of loadFonts: the error is logged and the loop
\* goes on with the next font.
AfterStartupFailure(fl) ==
    [fl EXCEPT !.failed = fl.failed \cup {fl.i},
               !.i = fl.i + 1,
               !.pc = IF fl.i < Len(fl.list) THEN "loading" ELSE "done"]

AfterStartupSuccess(fl) ==
    [fl EXCEPT !.i = fl.i + 1,
               !.pc = IF fl.i < Len(fl.list) THEN "loading" ELSE "done"]

(***************************************************************************)
(* The stores and the client as a state machine: the two startup fetches,  *)
(* save and delete of presets, upload and delete of fonts, each of them    *)
(* with its failure path, and the screen render.                           *)
(***************************************************************************)
InitStores ==
    /\ cards = <<>>
    /\ cfg = DefaultConfig
    /\ presets = <<>>
    /\ currentPresetId = ""
    /\ db = <<LegacyPreset>>
    /\ startup = StartupPending
    /\ inflight = {}
    /\ nextId = 0
    /\ ops = 0
    /\ view = NoView
    /\ lastOp = NoOp
    /\ reading = {}
    /\ fontsDir = InitialFontsDir
    /\ customFonts = <<>>
    /\ docFonts = {}
    /\ fontLoad = FontLoadPending
    /\ fontJobs = {}
    /\ deletes = {}
    /\ alerts = 0
    /\ refs = NoRefs
    /\ handlers = {}
    /\ dataFiles = {DbJson}

\* ---- loadFonts of the mount effect ----
ServeGetFonts ==
    \E list \in FontListings(fontsDir) :
        /\ fontLoad.pc = "fetching"
        /\ fontLoad' = [fontLoad EXCEPT !.pc = "responded", !.list = list]
        /\ lastOp' = Op("serveGetFonts", "")
        /\ UNCHANGED <<dataFiles, handlers, refs, cards, cfg, presets, currentPresetId, db, startup,
                       inflight, nextId, ops, view, reading, fontsDir,
                       customFonts, docFonts, fontJobs, deletes, alerts>>

\* api.getFonts() rejects: the outer catch logs it and loadFonts ends.
GetFontsFailed ==
    /\ fontLoad.pc = "fetching"
    /\ fontLoad' = [fontLoad EXCEPT !.pc = "aborted"]
    /\ lastOp' = Op("getFontsFailed", "")
    /\ UNCHANGED <<dataFiles, handlers, refs, cards, cfg, presets, currentPresetId, db, startup,
                   inflight, nextId, ops, view, reading, fontsDir,
                   customFonts, docFonts, fontJobs, deletes, alerts>>

\* setCustomFonts(fontList), and the loop starts to load the first font.
GetFontsDone ==
    /\ fontLoad.pc = "responded"
    /\ customFonts' = fontLoad.list
    /\ fontLoad' = [fontLoad EXCEPT
                       !.i = 1,
                       !.pc = IF fontLoad.list = <<>> THEN "done"
                              ELSE "loading"]
    /\ lastOp' = Op("getFontsDone", "")
    /\ UNCHANGED <<dataFiles, handlers, refs, cards, cfg, presets, currentPresetId, db, startup,
                   inflight, nextId, ops, view, reading, fontsDir,
                   docFonts, fontJobs, deletes, alerts>>

\* await font.load() resolves: document.fonts.add(font), next font.
StartupFontLoaded ==
    /\ fontLoad.pc = "loading"
    /\ CanLoad(fontsDir, fontLoad.list[fontLoad.i].url)
    /\ docFonts' = docFonts
           \cup {LoadedFace(fontsDir, fontLoad.list[fontLoad.i])}
    /\ fontLoad' = AfterStartupSuccess(fontLoad)
    /\ lastOp' = Op("startupFontLoaded", "")
    /\ UNCHANGED <<dataFiles, handlers, refs, cards, cfg, presets, currentPresetId, db, startup,
                   inflight, nextId, ops, view, reading, fontsDir,
                   customFonts, fontJobs, deletes, alerts>>

\* await font.load() rejects (the file is gone, is no font, or the
\* download failed).
StartupFontFailed ==
    /\ fontLoad.pc = "loading"
    /\ fontLoad' = AfterStartupFailure(fontLoad)
    /\ lastOp' = Op("startupFontFailed", "")
    /\ UNCHANGED <<dataFiles, handlers, refs, cards, cfg, presets, currentPresetId, db, startup,
                   inflight, nextId, ops, view, reading, fontsDir,
                   customFonts, docFonts, fontJobs, deletes, alerts>>

\* ---- processFontFiles ----
\* The job after the iteration of file i: the next file is sent, or the
\* loop is over.
AdvanceJob(jobs, j) ==
    IF j.i < Len(j.files)
    THEN (jobs \ {j}) \cup
             {[j EXCEPT !.i = j.i + 1, !.stage = "sent", !.res = None]}
    ELSE jobs \ {j}

\* processFontFiles(files) for a file list out of drops: the first file is
\* sent.
ProcessFontFilesOf(drops) ==
    \E files \in drops :
        /\ Mounted
        /\ ops < MaxRequests
        /\ ops' = ops + 1
        /\ nextId' = nextId + 1
        /\ fontJobs' = fontJobs \cup
               {[ id |-> "j" \o ToString(nextId + 1), kind |-> "upload",
                  files |-> files, i |-> 1, stage |-> "sent", res |-> None,
                  fileName |-> <<>> ]}
        /\ lastOp' = Op("processFontFiles", "")
        /\ UNCHANGED <<dataFiles, handlers, refs, cards, cfg, presets, currentPresetId, db, startup,
                       inflight, view, reading, fontsDir, customFonts,
                       docFonts, fontLoad, deletes, alerts>>

\* handleFontUpload / handleDrop
ProcessFontFiles == ProcessFontFilesOf(FontDrops)

\* POST /api/fonts: multer has written the file; the handler answers with
\* the font object.
ServeUploadFont ==
    \E j \in fontJobs :
        /\ j.kind = "upload" /\ j.stage = "sent"
        /\ fontsDir' = WriteFile(fontsDir, j.files[j.i])
        /\ fontJobs' = (fontJobs \ {j}) \cup
               {[j EXCEPT !.stage = "answered",
                          !.res = Some(FontMeta(SafeName(
                                           j.files[j.i].originalname)))]}
        /\ lastOp' = Op("serveUploadFont", j.id)
        /\ UNCHANGED <<dataFiles, handlers, refs, cards, cfg, presets, currentPresetId, db, startup,
                       inflight, nextId, ops, view, reading, customFonts,
                       docFonts, fontLoad, deletes, alerts>>

\* The upload fails: the request does not reach the handler, or the
\* answer is lost after the file was written.
FailUploadFont ==
    \E j \in fontJobs :
        /\ j.kind = "upload" /\ j.stage = "sent"
        /\ \/ fontsDir' = fontsDir
           \/ fontsDir' = WriteFile(fontsDir, j.files[j.i])
        /\ fontJobs' = (fontJobs \ {j}) \cup {[j EXCEPT !.stage = "rejected"]}
        /\ lastOp' = Op("failUploadFont", j.id)
        /\ UNCHANGED <<dataFiles, handlers, refs, cards, cfg, presets, currentPresetId, db, startup,
                       inflight, nextId, ops, view, reading, customFonts,
                       docFonts, fontLoad, deletes, alerts>>

\* The answer arrived with success and font: the FontFace is made and
\* font.load() is awaited.
UploadFontDone ==
    \E j \in fontJobs :
        /\ j.kind = "upload" /\ j.stage = "answered"
        /\ fontJobs' = (fontJobs \ {j}) \cup {[j EXCEPT !.stage = "loading"]}
        /\ lastOp' = Op("uploadFontDone", j.id)
        /\ UNCHANGED <<dataFiles, handlers, refs, cards, cfg, presets, currentPresetId, db, startup,
                       inflight, nextId, ops, view, reading, fontsDir,
                       customFonts, docFonts, fontLoad, deletes, alerts>>

\* catch of the iteration, after api.uploadFont threw.
UploadFontFailed ==
    \E j \in fontJobs :
        /\ j.kind = "upload" /\ j.stage = "rejected"
        /\ alerts' = Alert(alerts)
        /\ fontJobs' = AdvanceJob(fontJobs, j)
        /\ lastOp' = Op("requestFailed", j.id)
        /\ UNCHANGED <<dataFiles, handlers, refs, cards, cfg, presets, currentPresetId, db, startup,
                       inflight, nextId, ops, view, reading, fontsDir,
                       customFonts, docFonts, fontLoad, deletes>>

\* font.load() resolved: the font is registered and listed, one entry per
\* name.
FontFaceLoaded ==
    \E j \in fontJobs :
        /\ j.kind = "upload" /\ j.stage = "loading"
        /\ CanLoad(fontsDir, j.res[1].url)
        /\ docFonts' = docFonts \cup {LoadedFace(fontsDir, j.res[1])}
        /\ customFonts' = AddFont(customFonts, j.res[1])
        /\ fontJobs' = AdvanceJob(fontJobs, j)
        /\ lastOp' = Op("fontRegistered", j.id)
        /\ UNCHANGED <<dataFiles, handlers, refs, cards, cfg, presets, currentPresetId, db, startup,
                       inflight, nextId, ops, view, reading, fontsDir,
                       fontLoad, deletes, alerts>>

\* catch of the iteration, after font.load() threw.
FontFaceFailed ==
    \E j \in fontJobs :
        /\ j.kind = "upload" /\ j.stage = "loading"
        /\ alerts' = Alert(alerts)
        /\ fontJobs' = AdvanceJob(fontJobs, j)
        /\ lastOp' = Op("requestFailed", j.id)
        /\ UNCHANGED <<dataFiles, handlers, refs, cards, cfg, presets, currentPresetId, db, startup,
                       inflight, nextId, ops, view, reading, fontsDir,
                       customFonts, docFonts, fontLoad, deletes>>

\* ---- deleteCustomFont ----
DeleteCustomFont ==
    \E k \in DOMAIN customFonts :
        /\ Mounted
        /\ ops < MaxRequests
        /\ ops' = ops + 1
        /\ nextId' = nextId + 1
        /\ fontJobs' = fontJobs \cup
               {[ id |-> "j" \o ToString(nextId + 1), kind |-> "delete",
                  files |-> <<>>, i |-> 0, stage |-> "sent", res |-> None,
                  fileName |-> customFonts[k].fileName ]}
        /\ lastOp' = Op("deleteCustomFont", "")
        /\ UNCHANGED <<dataFiles, handlers, refs, cards, cfg, presets, currentPresetId, db, startup,
                       inflight, view, reading, fontsDir, customFonts,
                       docFonts, fontLoad, deletes, alerts>>

\* DELETE /api/fonts/:fileName
ServeDeleteFont ==
    \E j \in fontJobs :
        /\ j.kind = "delete" /\ j.stage = "sent"
        /\ fontsDir' = RemoveFile(fontsDir, j.fileName)
        /\ dataFiles' = RemoveDataFile(dataFiles, j.fileName)
        /\ fontJobs' = (fontJobs \ {j}) \cup {[j EXCEPT !.stage = "answered"]}
        /\ lastOp' = Op("serveDeleteFont", j.id)
        /\ UNCHANGED <<handlers, refs, cards, cfg, presets, currentPresetId, db, startup,
                       inflight, nextId, ops, view, reading, customFonts,
                       docFonts, fontLoad, deletes, alerts>>

FailDeleteFont ==
    \E j \in fontJobs :
        /\ j.kind = "delete" /\ j.stage = "sent"
        /\ \/ UNCHANGED <<fontsDir, dataFiles>>
           \/ /\ fontsDir' = RemoveFile(fontsDir, j.fileName)
              /\ dataFiles' = RemoveDataFile(dataFiles, j.fileName)
        /\ fontJobs' = (fontJobs \ {j}) \cup {[j EXCEPT !.stage = "rejected"]}
        /\ lastOp' = Op("failDeleteFont", j.id)
        /\ UNCHANGED <<handlers, refs, cards, cfg, presets, currentPresetId, db, startup,
                       inflight, nextId, ops, view, reading, customFonts,
                       docFonts, fontLoad, deletes, alerts>>

DeleteFontDone ==
    \E j \in fontJobs :
        /\ j.kind = "delete" /\ j.stage = "answered"
        /\ customFonts' = FilterOutFileName(customFonts, j.fileName)
        /\ fontJobs' = fontJobs \ {j}
        /\ lastOp' = Op("deleteFontDone", j.id)
        /\ UNCHANGED <<dataFiles, handlers, refs, cards, cfg, presets, currentPresetId, db, startup,
                       inflight, nextId, ops, view, reading, fontsDir,
                       docFonts, fontLoad, deletes, alerts>>

DeleteFontFailed ==
    \E j \in fontJobs :
        /\ j.kind = "delete" /\ j.stage = "rejected"
        /\ alerts' = Alert(alerts)
        /\ fontJobs' = fontJobs \ {j}
        /\ lastOp' = Op("requestFailed", j.id)
        /\ UNCHANGED <<dataFiles, handlers, refs, cards, cfg, presets, currentPresetId, db, startup,
                       inflight, nextId, ops, view, reading, fontsDir,
                       customFonts, docFonts, fontLoad, deletes>>

\* ---- savePreset, failure path ----
\* The POST fails: it does not reach the handler, or the answer is lost
\* after db.json was written.
FailPost ==
    \E r \in inflight :
        /\ r.stage = "sent"
        /\ \/ db' = db
           \/ db' = ServerUpsert(db, r.preset)
        /\ inflight' = (inflight \ {r}) \cup {[r EXCEPT !.stage = "failed"]}
        /\ lastOp' = Op("failPost", "")
        /\ UNCHANGED <<ioVars, cards, cfg, presets, currentPresetId, startup,
                       nextId, ops, view>>

\* catch of savePreset.
SavePresetFailed ==
    \E r \in inflight :
        /\ r.stage = "failed"
        /\ alerts' = Alert(alerts)
        /\ inflight' = inflight \ {r}
        /\ lastOp' = Op("requestFailed", "")
        /\ UNCHANGED <<dataFiles, handlers, refs, cards, cfg, presets, currentPresetId, db, startup,
                       nextId, ops, view, reading, fontsDir, customFonts,
                       docFonts, fontLoad, fontJobs, deletes>>

\* ---- deletePreset ----
\* presets.filter(p => p.id !== presetId)
RECURSIVE FilterOutPreset(_, _)
FilterOutPreset(list, id) ==
    IF list = <<>> THEN <<>>
    ELSE IF Head(list).id = id THEN FilterOutPreset(Tail(list), id)
         ELSE <<Head(list)>> \o FilterOutPreset(Tail(list), id)

\* deletePreset up to its await: confirmed, the DELETE is sent.  The
\* continuation closes over presets and currentPresetId of this render.
DeletePreset ==
    \E k \in DOMAIN presets :
        /\ Mounted
        /\ ops < MaxRequests
        /\ ops' = ops + 1
        /\ deletes' = deletes \cup
               {[ id |-> presets[k].id, presets |-> presets,
                  currentPresetId |-> currentPresetId, stage |-> "sent" ]}
        /\ lastOp' = Op("deletePreset", "")
        /\ UNCHANGED <<dataFiles, handlers, refs, cards, cfg, presets, currentPresetId, db, startup,
                       inflight, nextId, view, reading, fontsDir,
                       customFonts, docFonts, fontLoad, fontJobs, alerts>>

\* DELETE /api/presets/:id
ServeDeletePreset ==
    \E r \in deletes :
        /\ r.stage = "sent"
        /\ db' = FilterOutPreset(db, r.id)
        /\ deletes' = (deletes \ {r}) \cup {[r EXCEPT !.stage = "answered"]}
        /\ lastOp' = Op("serveDeletePreset", "")
        /\ UNCHANGED <<dataFiles, handlers, refs, cards, cfg, presets, currentPresetId, startup,
                       inflight, nextId, ops, view, reading, fontsDir,
                       customFonts, docFonts, fontLoad, fontJobs, alerts>>

FailDeletePreset ==
    \E r \in deletes :
        /\ r.stage = "sent"
        /\ \/ db' = db
           \/ db' = FilterOutPreset(db, r.id)
        /\ deletes' = (deletes \ {r}) \cup {[r EXCEPT !.stage = "rejected"]}
        /\ lastOp' = Op("failDeletePreset", "")
        /\ UNCHANGED <<dataFiles, handlers, refs, cards, cfg, presets, currentPresetId, startup,
                       inflight, nextId, ops, view, reading, fontsDir,
                       customFonts, docFonts, fontLoad, fontJobs, alerts>>

\* deletePreset after its await.
DeletePresetDone ==
    \E r \in deletes :
        /\ r.stage = "answered"
        /\ presets' = FilterOutPreset(r.presets, r.id)
        /\ currentPresetId' =
               IF r.currentPresetId = r.id THEN "" ELSE currentPresetId
        /\ deletes' = deletes \ {r}
        /\ lastOp' = Op("deletePresetDone", "")
        /\ UNCHANGED <<dataFiles, handlers, refs, cards, cfg, db, startup, inflight, nextId, ops, view,
                       reading, fontsDir, customFonts, docFonts, fontLoad,
                       fontJobs, alerts>>

\* catch of deletePreset.
DeletePresetFailed ==
    \E r \in deletes :
        /\ r.stage = "rejected"
        /\ alerts' = Alert(alerts)
        /\ deletes' = deletes \ {r}
        /\ lastOp' = Op("requestFailed", "")
        /\ UNCHANGED <<dataFiles, handlers, refs, cards, cfg, presets, currentPresetId, db, startup,
                       inflight, nextId, ops, view, reading, fontsDir,
                       customFonts, docFonts, fontLoad, fontJobs>>

\* The steps of the fonts: startup load, upload, delete.
FontStep ==
    \/ ServeGetFonts
    \/ GetFontsFailed
    \/ GetFontsDone
    \/ StartupFontLoaded
    \/ StartupFontFailed
    \/ ProcessFontFiles
    \/ ServeUploadFont
    \/ FailUploadFont
    \/ UploadFontDone
    \/ UploadFontFailed
    \/ FontFaceLoaded
    \/ FontFaceFailed
    \/ DeleteCustomFont
    \/ ServeDeleteFont
    \/ FailDeleteFont
    \/ DeleteFontDone
    \/ DeleteFontFailed

\* The steps of the presets: startup fetch, load, reset, save, delete.
PresetStep ==
    \/ LoadPreset
    \/ ResetToDefault
    \/ ServeGetPresets
    \/ GetPresetsDone
    \/ SavePreset
    \/ ServePost
    \/ FailPost
    \/ SavePresetDone
    \/ SavePresetFailed
    \/ DeletePreset
    \/ ServeDeletePreset
    \/ FailDeletePreset
    \/ DeletePresetDone
    \/ DeletePresetFailed

NextStores == FontStep \/ PresetStep

SpecStores == InitStores /\ [][NextStores]_vars

(***************************************************************************)
(* The fonts alone, with the screen render, from a store of two fonts.     *)
(* The steps of loadFonts are taken when they can be: a request is         *)
(* answered or fails, and a promise settles.                               *)
(***************************************************************************)
InitFonts ==
    /\ cards = <<SampleCardA>>
    /\ cfg = DefaultConfig
    /\ presets = <<>>
    /\ currentPresetId = ""
    /\ db = <<>>
    /\ startup = StartupPending
    /\ inflight = {}
    /\ nextId = 0
    /\ ops = 0
    /\ view = NoView
    /\ lastOp = NoOp
    /\ reading = {}
    /\ fontsDir = InitialFontsDirTwo
    /\ customFonts = <<>>
    /\ docFonts = {}
    /\ fontLoad = FontLoadPending
    /\ fontJobs = {}
    /\ deletes = {}
    /\ alerts = 0
    /\ refs = NoRefs
    /\ handlers = {}
    /\ dataFiles = {DbJson}

NextFonts == FontStep \/ RenderScreen

\* The steps of loadFonts: each is the answer to a request or the settling
\* of a promise.
StartupFontStep ==
    \/ ServeGetFonts
    \/ GetFontsFailed
    \/ GetFontsDone
    \/ StartupFontLoaded
    \/ StartupFontFailed

SpecFontsLive == InitFonts /\ [][NextFonts]_vars /\ WF_vars(StartupFontStep)

(***************************************************************************)
(* Object identity.  fontSize, offsets, fontFamilies, letterSpacings and   *)
(* cropOffset are objects: the layout state and the settings of a preset   *)
(* hold references into a heap, and cfg and presets are what is read       *)
(* through those references.  Every preset of this specification was       *)
(* saved by this client, so its settings hold all five objects.            *)
(***************************************************************************)
ObjFields ==
    {"fontSize", "offsets", "fontFamilies", "letterSpacings", "cropOffset"}

\* Mutant: the setter's argument made by assigning to the object in place.
SpreadInPlace(h, ref, k, v) ==
    [heap |-> [h EXCEPT ![ref][k] = v], ref |-> ref]

\* { ...obj, [k]: v }: a new object; the one held before stays as it was.
Spread(h, ref, k, v) ==
    [heap |-> Append(h, [h[ref] EXCEPT ![k] = v]), ref |-> Len(h) + 1]

\* The layout state read through the references st in heap h.
DerefConfig(c, st, h) ==
    [ c EXCEPT
        !.fontSize = h[st.fontSize],
        !.offsets = h[st.offsets],
        !.fontFamilies = h[st.fontFamilies],
        !.letterSpacings = h[st.letterSpacings],
        !.cropOffset = h[st.cropOffset] ]

\* The settings of a preset read through its references r in heap h.
DerefSettings(s, r, h) ==
    [ s EXCEPT
        !.fontSize = h[r.fontSize],
        !.offsets = h[r.offsets],
        !.fontFamilies = h[r.fontFamilies],
        !.letterSpacings = Some(h[r.letterSpacings]),
        !.cropOffset = Some(h[r.cropOffset]) ]

DerefPresets(list, held, h) ==
    [i \in DOMAIN list |->
        [list[i] EXCEPT !.settings = DerefSettings(@, held[i], h)]]

\* The objects made by the useState initialisers.
InitialRefs ==
    [ heap  |-> << DefaultFontSize, DefaultOffsets, DefaultFontFamilies,
                   DefaultLetterSpacings, DefaultCropOffset >>,
      state |-> [ fontSize |-> 1, offsets |-> 2, fontFamilies |-> 3,
                  letterSpacings |-> 4, cropOffset |-> 5 ],
      held  |-> <<>>,
      sent  |-> {} ]

ShareNames == {"A", "B"}

\* The setter calls of the sidebar: which object, which key, which value.
SetterCalls ==
    {<<"fontSize", k, OrZero(ParseInt(t))>> : k \in EditKeys, t \in IntInputs}
    \cup
    {<<"offsets", k, OrZero(ParseInt(t))>> : k \in EditKeys, t \in IntInputs}
    \cup
    {<<"fontFamilies", k, v>> : k \in EditKeys, v \in FontChoices}
    \cup
    {<<"letterSpacings", k, OrZero(ParseFloat(t))>> :
        k \in EditKeys, t \in FloatInputs}
    \cup
    {<<"cropOffset", k, OrZero(ParseInt(t))>> : k \in {"x"}, t \in IntInputs}

InitShare ==
    /\ cards = <<>>
    /\ cfg = DefaultConfig
    /\ presets = <<>>
    /\ currentPresetId = ""
    /\ db = <<>>
    /\ startup = StartupPending
    /\ inflight = {}
    /\ nextId = 0
    /\ ops = 0
    /\ view = NoView
    /\ lastOp = NoOp
    /\ reading = {}
    /\ fontsDir = {}
    /\ customFonts = <<>>
    /\ docFonts = {}
    /\ fontLoad = FontLoadPending
    /\ fontJobs = {}
    /\ deletes = {}
    /\ alerts = 0
    /\ refs = InitialRefs
    /\ handlers = {}
    /\ dataFiles = {DbJson}

\* An onChange handler of the sidebar: setX({ ...x, [k]: v }) for the five
\* objects, setGlobalSpacing(v) for the number.
SetterOnHeap ==
    /\ ops < MaxEdits
    /\ ops' = ops + 1
    /\ \/ \E call \in SetterCalls :
            LET f == call[1]
                n == Spread(refs.heap, refs.state[f], call[2], call[3])
                st == [refs.state EXCEPT ![f] = n.ref]
            IN  /\ refs' = [refs EXCEPT !.heap = n.heap, !.state = st]
                /\ cfg' = DerefConfig(cfg, st, n.heap)
                /\ presets' = DerefPresets(presets, refs.held, n.heap)
       \/ \E t \in IntInputs :
            /\ cfg' = [cfg EXCEPT !.globalSpacing = OrZero(ParseInt(t))]
            /\ UNCHANGED <<refs, presets>>
    /\ lastOp' = Op("setter", "")
    /\ UNCHANGED <<dataFiles, handlers, cards, currentPresetId, db, startup, inflight, nextId,
                   view, reading, fontsDir, customFonts, docFonts, fontLoad,
                   fontJobs, deletes, alerts>>

\* savePreset up to its await: settings: { fontSize, offsets, ... } holds
\* the objects of the layout state themselves.
SavePresetOnHeap ==
    \E name \in ShareNames :
        LET idx == FindIndexByName(presets, name)
            id  == IF idx > 0 THEN presets[idx].id ELSE NewId
            newPreset == [ id |-> id, name |-> name,
                           settings |-> PresetSettings(cfg),
                           savedFrom |-> Some(cfg) ]
        IN  /\ nextId < MaxOps
            /\ nextId' = nextId + 1
            /\ inflight' = inflight \cup
                   {[req |-> nextId + 1, preset |-> newPreset,
                     stage |-> "sent"]}
            /\ refs' = [refs EXCEPT
                          !.sent = @ \cup {[req |-> nextId + 1,
                                            at |-> refs.state]}]
            /\ lastOp' = Op("savePreset", id)
            /\ UNCHANGED <<dataFiles, handlers, cards, cfg, presets, currentPresetId, db, startup,
                           ops, view, reading, fontsDir, customFonts,
                           docFonts, fontLoad, fontJobs, deletes, alerts>>

\* savePreset after its await: newPreset, the object built at the click,
\* is put into the list.
SavePresetDoneOnHeap ==
    \E r \in inflight :
        LET s == CHOOSE x \in refs.sent : x.req = r.req
            idx == FindIndexById(presets, r.preset.id)
            held == IF idx > 0 THEN [refs.held EXCEPT ![idx] = s.at]
                    ELSE Append(refs.held, s.at)
        IN  /\ r.stage = "stored"
            /\ refs' = [refs EXCEPT !.held = held, !.sent = @ \ {s}]
            /\ presets' = DerefPresets(ClientUpsert(presets, r.preset),
                                       held, refs.heap)
            /\ currentPresetId' = r.preset.id
            /\ inflight' = inflight \ {r}
            /\ lastOp' = Op("savePresetDone", r.preset.id)
            /\ UNCHANGED <<dataFiles, handlers, cards, cfg, db, startup, nextId, ops, view,
                           reading, fontsDir, customFonts, docFonts,
                           fontLoad, fontJobs, deletes, alerts>>

\* loadPreset: setFontSize(preset.settings.fontSize) and the like make the
\* layout state hold the objects of the preset.
LoadPresetOnHeap ==
    \E i \in DOMAIN presets :
        LET presetId == presets[i].id
            j == FindIndexById(presets, presetId)
        IN  /\ refs' = [refs EXCEPT !.state = refs.held[j]]
            /\ cfg' = DerefConfig(LoadedConfig(cfg, presets[j].settings),
                                  refs.held[j], refs.heap)
            /\ currentPresetId' = presetId
            /\ lastOp' = Op("loadPreset", presetId)
            /\ UNCHANGED <<dataFiles, handlers, cards, presets, db, startup, inflight, nextId,
                           ops, view, reading, fontsDir, customFonts,
                           docFonts, fontLoad, fontJobs, deletes, alerts>>

NextShare ==
    \/ SetterOnHeap
    \/ SavePresetOnHeap
    \/ ServePost
    \/ SavePresetDoneOnHeap
    \/ LoadPresetOnHeap

SpecShare == InitShare /\ [][NextShare]_vars

(***************************************************************************)
(* The preset handlers of the server, step by step.  Each handler is an    *)
(* async function: it awaits fs.readJson, changes the list it has read,    *)
(* awaits fs.writeJson and answers.  Handlers of different requests        *)
(* interleave at their awaits.                                             *)
(***************************************************************************)
MaxServed == 3

\* Bodies of POST /api/presets and ids of DELETE /api/presets/:id.
PostBodies ==
    { LegacyPreset, ExplicitPreset,
      [LegacyPreset EXCEPT !.name = "B", !.settings = ExplicitSettings] }
DeleteIds == {"f1", "f2", "f9"}

\* db.json after the server has started: { presets: [] } when it made the
\* file, or presets stored earlier.
InitServer ==
    /\ cards = <<>>
    /\ cfg = DefaultConfig
    /\ presets = <<>>
    /\ currentPresetId = ""
    /\ db \in InitialStores
    /\ startup = StartupPending
    /\ inflight = {}
    /\ nextId = 0
    /\ ops = 0
    /\ view = NoView
    /\ lastOp = NoOp
    /\ reading = {}
    /\ fontsDir = {}
    /\ customFonts = <<>>
    /\ docFonts = {}
    /\ fontLoad = FontLoadPending
    /\ fontJobs = {}
    /\ deletes = {}
    /\ alerts = 0
    /\ refs = NoRefs
    /\ handlers = {}
    /\ dataFiles = {DbJson}

\* What a handler step leaves alone.
ServerFrame ==
    UNCHANGED <<dataFiles, cards, cfg, presets, currentPresetId, startup, inflight,
                nextId, ops, view, reading, fontsDir, customFonts, docFonts,
                fontLoad, fontJobs, deletes, alerts, refs>>

\* A request arrives: the handler runs to await fs.readJson(DB_FILE).
ReceivePost ==
    \E p \in PostBodies :
        /\ Cardinality(handlers) < MaxServed
        /\ handlers' = handlers \cup
               {[ n |-> Cardinality(handlers) + 1, kind |-> "post",
                  body |-> Some(p), id |-> p.id, pc |-> "reading",
                  local |-> <<>> ]}
        /\ lastOp' = Op("receivePost", "")
        /\ db' = db
        /\ ServerFrame

ReceiveDelete ==
    \E id \in DeleteIds :
        /\ Cardinality(handlers) < MaxServed
        /\ handlers' = handlers \cup
               {[ n |-> Cardinality(handlers) + 1, kind |-> "delete",
                  body |-> None, id |-> id, pc |-> "reading",
                  local |-> <<>> ]}
        /\ lastOp' = Op("receiveDelete", "")
        /\ db' = db
        /\ ServerFrame

\* fs.readJson resolves: the handler changes the list it has read and
\* calls fs.writeJson with it.
PresetsRead ==
    \E h \in handlers :
        /\ h.pc = "reading"
        /\ handlers' = (handlers \ {h}) \cup
               {[h EXCEPT !.pc = "writing",
                          !.local = IF h.kind = "post"
                                    THEN ServerUpsert(db, h.body[1])
                                    ELSE FilterOutPreset(db, h.id)]}
        /\ lastOp' = Op("presetsRead", "")
        /\ db' = db
        /\ ServerFrame

\* fs.writeJson resolves: the file holds the handler's list, and the
\* handler answers { success: true }.
PresetsWritten ==
    \E h \in handlers :
        /\ h.pc = "writing"
        /\ db' = h.local
        /\ handlers' = (handlers \ {h}) \cup {[h EXCEPT !.pc = "answered"]}
        /\ lastOp' = Op("presetsWritten", "")
        /\ ServerFrame

\* fs.readJson or fs.writeJson rejects: the catch answers 500.
PresetsThrows ==
    \E h \in handlers :
        /\ h.pc \in {"reading", "writing"}
        /\ handlers' = (handlers \ {h}) \cup {[h EXCEPT !.pc = "failed"]}
        /\ lastOp' = Op("presetsThrows", "")
        /\ db' = db
        /\ ServerFrame

NextServer ==
    \/ ReceivePost
    \/ ReceiveDelete
    \/ PresetsRead
    \/ PresetsWritten
    \/ PresetsThrows

SpecServer == InitServer /\ [][NextServer]_vars

(***************************************************************************)
(* The font store with the requests of any HTTP client: uploads under      *)
(* names over a set of code units that has members on both sides of every  *)
(* edge of the sanitiser's class, and DELETE requests whose parameter is   *)
(* the decoded text of the last URL segment (%2F gives "/").               *)
(***************************************************************************)
MaxNameLen == 2

\* a Z 9 _ . / \ space - : @ [ ` { U+4DFF U+4E00 U+9FA5 U+9FA6 and a high
\* surrogate.
NameUnits ==
    {97, 90, 57, 95, 46, 47, 92, 32, 45, 58, 64, 91, 96, 123,
     19967, 19968, 40869, 40870, 55357}

\* file.originalname of an upload; "." and ".." name no file.
UploadNames ==
    (UNION {[1..n -> NameUnits] : n \in 1..MaxNameLen})
        \ {<<46>>, <<46, 46>>}

NamedDrops == { <<[originalname |-> nm, data |-> "font2"]>> : nm \in UploadNames }

\* The fileName parameters of the DELETE requests, each with the text that
\* the history keeps for it.
DeleteParams ==
    { [text |-> "A.ttf", units |-> FileAttf],
      [text |-> "B.woff", units |-> FileBwoff],
      [text |-> "x", units |-> <<120>>],
      [text |-> "..", units |-> <<46, 46>>],
      [text |-> "../db.json", units |-> <<46, 46, 47>> \o DbJson],
      [text |-> "../fonts/A.ttf",
       units |-> <<46, 46, 47>> \o FontsSeg \o <<47>> \o FileAttf],
      [text |-> "../..", units |-> <<46, 46, 47, 46, 46>>] }

InitFontStore ==
    /\ cards = <<>>
    /\ cfg = DefaultConfig
    /\ presets = <<>>
    /\ currentPresetId = ""
    /\ db = <<>>
    /\ startup = StartupPending
    /\ inflight = {}
    /\ nextId = 0
    /\ ops = 0
    /\ view = NoView
    /\ lastOp = NoOp
    /\ reading = {}
    /\ fontsDir = InitialFontsDirTwo
    /\ customFonts = <<>>
    /\ docFonts = {}
    /\ fontLoad = FontLoadPending
    /\ fontJobs = {}
    /\ deletes = {}
    /\ alerts = 0
    /\ refs = NoRefs
    /\ handlers = {}
    /\ dataFiles = {DbJson}

\* A file of any name is handed to processFontFiles.
ProcessNamedFiles == ProcessFontFilesOf(NamedDrops)

\* DELETE /api/fonts/:fileName sent by any client: the handler joins the
\* parameter to FONTS_DIR, removes what is there when it exists, and
\* answers { success: true }.
DeleteFontRequest ==
    \E param \in DeleteParams :
        /\ fontsDir' = RemoveFile(fontsDir, param.units)
        /\ dataFiles' = RemoveDataFile(dataFiles, param.units)
        /\ lastOp' = Op("deleteFontRequest", param.text)
        /\ UNCHANGED <<cards, cfg, presets, currentPresetId, db, startup,
                       inflight, nextId, ops, view, reading, customFonts,
                       docFonts, fontLoad, fontJobs, deletes, alerts, refs,
                       handlers>>

NextFontStore ==
    \/ ProcessNamedFiles
    \/ ServeUploadFont
    \/ UploadFontDone
    \/ FontFaceLoaded
    \/ FontFaceFailed
    \/ DeleteFontRequest

SpecFontStore == InitFontStore /\ [][NextFontStore]_vars

(***************************************************************************)
(* Properties of the rendered output.                                      *)
(***************************************************************************)
NATIVE_CONTENT_WIDTH_MM == 357

Rendered == view.medium # "none"
PageIdx == DOMAIN view.pages
FieldOut(i, k, f) == view.pages[i].sides[k].fields[f]

\* "s with leading/trailing whitespace removed is exactly two characters,
\* both in U+4E00..U+9FA5": two adjacent ideographs and nothing but
\* whitespace around them.
IsTwoIdeographsPadded(s) ==
    \E i \in 1..(Len(s) - 1) :
        /\ s[i] \in 19968..40869
        /\ s[i + 1] \in 19968..40869
        /\ \A k \in (1..Len(s)) \ {i, i + 1} : IsWhiteSpace(s[k])

\* C1: on every rendered page and on both sides, the tracking of
\* chineseName is 1 + 2t em when widening is on and the text, whitespace
\* at its ends removed, is exactly two ideographs of U+4E00..U+9FA5, and
\* is exactly t in every other case.
C1_ChineseNameTracking ==
    Rendered =>
        \A i \in PageIdx : \A k \in 1..2 :
            LET s == cards[i].chineseName
                t == cfg.letterSpacings["chineseName"]
            IN  FieldOut(i, k, "chineseName").letterSpacing =
                    IF cfg.enableTwoCharWidening /\ IsTwoIdeographsPadded(s)
                    THEN 100 + 2 * t
                    ELSE t

\* C1 witness: a rendered page whose chineseName is two ideographs with
\* whitespace in front, widened.
C1_Witness ==
    /\ Rendered
    /\ cfg.enableTwoCharWidening
    /\ Len(cards[1].chineseName) = 3
    /\ IsWhiteSpace(cards[1].chineseName[1])
    /\ cfg.letterSpacings["chineseName"] = 0 - 5
    /\ FieldOut(1, 1, "chineseName").letterSpacing = 90

\* C2: for every field of every rendered side, the trailing margin is
\* minus the effective tracking, whatever the sign of the tracking.
C2_MarginCompensatesTracking ==
    Rendered =>
        \A i \in PageIdx : \A k \in 1..2 : \A f \in Fields :
            FieldOut(i, k, f).marginRight = 0 - FieldOut(i, k, f).letterSpacing

\* C3 as stated: on the print path the fit-scale is exactly 297/357 when
\* printRotate is off and 1 when it is on.
C3_FitScaleIsExactRatio ==
    view.medium = "print" =>
        \A i \in PageIdx :
            LET fs == view.pages[i].fitScale
            IN  IF cfg.printRotate
                THEN fs.num = fs.den
                ELSE fs.num * NATIVE_CONTENT_WIDTH_MM = PAGE_WIDTH_MM * fs.den

\* C3 as amended: on the print path the fit-scale is exactly 0.83 when
\* printRotate is off and 1 when it is on, and it is the same for every
\* other record and every other layout state with the same printRotate.
C3_FitScaleByRotateOnly ==
    view.medium = "print" =>
        \A i \in PageIdx :
            LET fs == view.pages[i].fitScale
            IN  /\ IF cfg.printRotate
                   THEN fs.num = fs.den
                   ELSE fs.num * 100 = 83 * fs.den
                /\ \A j \in PageIdx : view.pages[j].fitScale = fs
                /\ \A c2 \in PageConfigs \cup TypoConfigs :
                       c2.printRotate = cfg.printRotate =>
                           FitScale(c2, "print") = fs

\* C3 witness: two pages printed with printRotate off.
C3_Witness ==
    /\ view.medium = "print"
    /\ ~cfg.printRotate
    /\ Len(view.pages) = 2
    /\ view.pages[1].fitScale = [num |-> 83, den |-> 100]

\* C4: on the print path the page block (its scale, its margin, its
\* height) is the same for every value of previewScale.
C4_PrintIgnoresPreviewScale ==
    view.medium = "print" =>
        \A i \in PageIdx : \A ps \in PreviewPicks :
            LET other == [cfg EXCEPT !.previewScale = ps]
            IN  /\ WrapperStyle(other, "print") = view.pages[i].wrapper
                /\ FitScale(other, "print") = view.pages[i].fitScale

C6_TrailingMargin ==
    view.medium = "screen" =>
        \A i \in PageIdx :
            LET mb == view.pages[i].wrapper.marginBottom
            IN  /\ mb = <<0 - 420 * (100 - cfg.previewScale)>>
                /\ cfg.previewScale = 75 => mb = <<0 - 10500>>
                /\ cfg.previewScale = 100 => mb = <<0>>
                /\ \A j \in PageIdx : view.pages[j].wrapper.marginBottom = mb
                /\ \A r \in BOOLEAN :
                       WrapperStyle([cfg EXCEPT !.printRotate = r],
                                    "screen").marginBottom = mb

\* C6 witness: a screen page at previewScale 0.75 with printRotate off,
\* whose margin is -105mm.
C6_Witness ==
    /\ view.medium = "screen"
    /\ cfg.previewScale = 75
    /\ ~cfg.printRotate
    /\ view.pages[1].wrapper.marginBottom = <<0 - 10500>>

ExpectedMark(corner, vside, hside) ==
    [ corner |-> corner, vside |-> vside, v |-> 0 - cfg.cropOffset.y,
      hside |-> hside, h |-> 0 - cfg.cropOffset.x ]

\* C8: with showCropMarks on, every page carries exactly four marks,
\* top-left (top, left), top-right (top, right), bottom-left (bottom,
\* left), bottom-right (bottom, right), each at (-cropOffset.y,
\* -cropOffset.x); with it off, none.
C8_CropMarks ==
    Rendered =>
        \A i \in PageIdx :
            IF cfg.showCropMarks
            THEN /\ view.pages[i].cropMarks =
                        { ExpectedMark("crop-top-left", "top", "left"),
                          ExpectedMark("crop-top-right", "top", "right"),
                          ExpectedMark("crop-bottom-left", "bottom", "left"),
                          ExpectedMark("crop-bottom-right", "bottom", "right") }
                 /\ Cardinality(view.pages[i].cropMarks) = 4
            ELSE view.pages[i].cropMarks = {}

\* C8 witness: a page rendered with marks at a calibration offset of
\* (-2, 3).
C8_Witness ==
    /\ Rendered
    /\ cfg.showCropMarks
    /\ cfg.cropOffset = [x |-> 0 - 2, y |-> 3]
    /\ Cardinality(view.pages[1].cropMarks) = 4


(***************************************************************************)
(* Properties of the layout state and the presets.                         *)
(***************************************************************************)
PresetOf(id) == presets[FindIndexById(presets, id)]

\* C7: in every reachable state previewScale lies in [0.30, 1.00].
C7_PreviewScaleInRange == 30 <= cfg.previewScale /\ cfg.previewScale <= 100

\* C9: right after loadPreset the load has completed (the preset is the
\* current one) and each optional field of the layout state is the stored
\* value when the preset holds the field (an explicit false included) and
\* otherwise its default: showFoldLine false, showCropMarks true,
\* cropOffset (0, 0), enableTwoCharWidening true, letterSpacings the
\* default tracking map.
C9_LoadFillsDefaults ==
    lastOp.op = "loadPreset" =>
        LET st == PresetOf(lastOp.id).settings
        IN  /\ currentPresetId = lastOp.id
            /\ cfg.showFoldLine =
                   IF st.showFoldLine = <<>> THEN FALSE
                   ELSE st.showFoldLine[1]
            /\ cfg.showCropMarks =
                   IF st.showCropMarks = <<>> THEN TRUE
                   ELSE st.showCropMarks[1]
            /\ cfg.cropOffset =
                   IF st.cropOffset = <<>> THEN [x |-> 0, y |-> 0]
                   ELSE st.cropOffset[1]
            /\ cfg.enableTwoCharWidening =
                   IF st.enableTwoCharWidening = <<>> THEN TRUE
                   ELSE st.enableTwoCharWidening[1]
            /\ cfg.letterSpacings =
                   IF st.letterSpacings = <<>>
                   THEN [f \in Fields |->
                            CASE f = "chineseName" -> 10
                              [] f = "englishName" -> 5
                              [] OTHER -> 0]
                   ELSE st.letterSpacings[1]

\* C9 witness: a preset that holds none of the optional fields has just
\* been loaded.
C9_Witness ==
    /\ lastOp.op = "loadPreset"
    /\ PresetOf(lastOp.id).settings.showFoldLine = <<>>
    /\ PresetOf(lastOp.id).settings.showCropMarks = <<>>
    /\ PresetOf(lastOp.id).settings.cropOffset = <<>>
    /\ PresetOf(lastOp.id).settings.enableTwoCharWidening = <<>>
    /\ PresetOf(lastOp.id).settings.letterSpacings = <<>>
    /\ ~cfg.showFoldLine
    /\ cfg.showCropMarks

\* C10 as stated: right after loading a preset that this client saved,
\* the whole layout state, printRotate and previewScale included, equals
\* the layout state at the save.
C10_RoundTripWhole ==
    lastOp.op = "loadPreset" =>
        LET p == PresetOf(lastOp.id)
        IN  p.savedFrom # <<>> => cfg = p.savedFrom[1]

\* C10 as amended: a loadPreset step of a preset that this client saved
\* yields the layout state at the save in every field except printRotate,
\* which the step leaves as it was.
C10_RoundTripExceptRotate ==
    [][ lastOp'.op = "loadPreset" =>
            LET p == presets[FindIndexById(presets, lastOp'.id)]
            IN  p.savedFrom # <<>> =>
                    cfg' = [p.savedFrom[1] EXCEPT !.printRotate = cfg.printRotate]
      ]_vars

\* C10 witness: a preset saved from a layout state other than the default
\* one has just been loaded, printRotate having been switched since the
\* save.
C10_Witness ==
    /\ lastOp.op = "loadPreset"
    /\ PresetOf(lastOp.id).savedFrom # <<>>
    /\ PresetOf(lastOp.id).savedFrom[1] # DefaultConfig
    /\ cfg.printRotate # PresetOf(lastOp.id).savedFrom[1].printRotate

(***************************************************************************)
(* Properties of the number inputs.                                        *)
(***************************************************************************)
\* The layout state c with the field of a number input set to v.
WithInput(c, input, v) ==
    CASE input = "fontSize.chineseName" ->
             [c EXCEPT !.fontSize["chineseName"] = v]
      [] input = "offsets.chineseName" ->
             [c EXCEPT !.offsets["chineseName"] = v]
      [] input = "letterSpacings.chineseName" ->
             [c EXCEPT !.letterSpacings["chineseName"] = v]
      [] input = "globalSpacing" -> [c EXCEPT !.globalSpacing = v]
      [] input = "cropOffset.x" -> [c EXCEPT !.cropOffset.x = v]
      [] input = "cropOffset.y" -> [c EXCEPT !.cropOffset.y = v]

\* C11: a step of a size, offset, spacing, tracking or crop-offset input
\* whose text is not a number completes, sets that field of the layout
\* state to 0 and changes no other field of it (nor the record list, the
\* preset list or the current preset).
C11_MalformedInputGivesZero ==
    [][ lastOp'.op = "malformedInput" =>
            /\ cfg' = WithInput(cfg, lastOp'.id, 0)
            /\ cards' = cards
            /\ presets' = presets
            /\ currentPresetId' = currentPresetId
      ]_vars

\* C11 witness: the tracking input of chineseName was given a text that is
\* not a number while the tracking was not 0, and the fold line switched on
\* earlier is still on.
C11_Witness ==
    /\ lastOp = [op |-> "malformedInput", id |-> "letterSpacings.chineseName"]
    /\ cfg.letterSpacings["chineseName"] = 0
    /\ cfg.letterSpacings["englishName"] = 5
    /\ cfg.showFoldLine

(***************************************************************************)
(* Properties of the record list and its rendering.                        *)
(***************************************************************************)
\* C12: whatever records were imported, added, edited, removed or
\* reordered and whatever preset was loaded, no render of the page list
\* aborts.
C12_RenderNeverAborts == view.medium # "crashed"

(***************************************************************************)
(* Properties of the page order, the two faces and the vertical placement. *)
(***************************************************************************)
\* C15: the pages are in the order of the record list, one per record;
\* for every order of the same records the page of each record is the
\* page it has now, whatever its position; the only element that depends
\* on the position is the divider after every page but the last, which is
\* on screen only and not part of the page.
C15_OrderAndPositionIndependence ==
    Rendered =>
        /\ Len(view.pages) = Len(cards)
        /\ \A i \in PageIdx : view.pages[i].key = cards[i].id
        /\ \A cs \in Orders(cards) :
               \A i \in PageIdx : \A j \in DOMAIN cs :
                   cs[j].id = cards[i].id =>
                       Render(cs, cfg, view.medium).pages[j] = view.pages[i]
        /\ \A i \in PageIdx :
               view.dividers[i] = (view.medium = "screen" /\ i < Len(cards))

\* C15 witness: three records rendered, the one with id c3 first.
C15_Witness ==
    /\ Rendered
    /\ Len(view.pages) = 3
    /\ view.pages[1].key = "c3"
    /\ view.pages[3].key = "c2"

\* C16: on every page the two sides carry the same four texts, those of
\* the record, with the same font family, size, tracking, trailing margin
\* and vertical placement, and the same gap, globalSpacing; they differ
\* only in the class card-side-top of the top side; and no render step
\* changes the record list.
C16_FacesCongruent ==
    /\ [](Rendered =>
            \A i \in PageIdx :
                LET top    == view.pages[i].sides[1]
                    bottom == view.pages[i].sides[2]
                IN  /\ top.fields = bottom.fields
                    /\ top.gap = cfg.globalSpacing
                    /\ bottom.gap = cfg.globalSpacing
                    /\ \A f \in Fields :
                           /\ top.fields[f].text = cards[i][f]
                           /\ top.fields[f].fontFamily = cfg.fontFamilies[f]
                           /\ top.fields[f].fontSize = cfg.fontSize[f]
                    /\ top.className = "card-side card-side-top"
                    /\ bottom.className = "card-side"
                    /\ top.side = "top" /\ bottom.side = "bottom")
    /\ [][cards' = cards]_vars

\* C16 witness: two records rendered with a gap of 40pt and 10pt fonts.
C16_Witness ==
    /\ Rendered
    /\ Len(view.pages) = 2
    /\ cfg.globalSpacing = 40
    /\ view.pages[2].sides[1].gap = 40
    /\ view.pages[2].sides[2].fields["englishName"].fontSize = 10

\* C17 as stated: for each of the four fields the tracking is 1 + 2t when
\* widening is on and the text, whitespace at its ends removed, is exactly
\* two ideographs, and t otherwise.
C17_WideningOnAllFields ==
    Rendered =>
        \A i \in PageIdx : \A k \in 1..2 : \A f \in Fields :
            FieldOut(i, k, f).letterSpacing =
                IF cfg.enableTwoCharWidening
                       /\ IsTwoIdeographsPadded(cards[i][f])
                THEN 100 + 2 * cfg.letterSpacings[f]
                ELSE cfg.letterSpacings[f]

\* C17 as amended: the widening rule is applied to chineseName only; the
\* tracking of englishName, chineseCompany and englishCompany is t for
\* every text, two ideographs included.
C17_WideningOnChineseNameOnly ==
    Rendered =>
        \A i \in PageIdx : \A k \in 1..2 : \A f \in Fields :
            FieldOut(i, k, f).letterSpacing =
                IF f = "chineseName" /\ cfg.enableTwoCharWidening
                       /\ IsTwoIdeographsPadded(cards[i][f])
                THEN 100 + 2 * cfg.letterSpacings[f]
                ELSE cfg.letterSpacings[f]

\* C17 witness: widening is on, chineseName and englishName are both two
\* ideographs; chineseName is widened and englishName is not.
C17_Witness ==
    /\ Rendered
    /\ cfg.enableTwoCharWidening
    /\ cards[1].chineseName = <<19968, 40869>>
    /\ cards[1].englishName = <<19968, 40869>>
    /\ cfg.letterSpacings["englishName"] = 10
    /\ FieldOut(1, 1, "englishName").letterSpacing = 10
    /\ FieldOut(1, 1, "chineseName").letterSpacing = 100

\* C18: on every side the vertical placement of chineseName is its offset
\* + 25pt, of englishName its offset + 12pt, of chineseCompany its offset
\* - 5pt, of englishCompany its offset - 10pt.
C18_VerticalPlacement ==
    Rendered =>
        \A i \in PageIdx : \A k \in 1..2 :
            /\ FieldOut(i, k, "chineseName").translateY =
                   cfg.offsets["chineseName"] + 25
            /\ FieldOut(i, k, "englishName").translateY =
                   cfg.offsets["englishName"] + 12
            /\ FieldOut(i, k, "chineseCompany").translateY =
                   cfg.offsets["chineseCompany"] - 5
            /\ FieldOut(i, k, "englishCompany").translateY =
                   cfg.offsets["englishCompany"] - 10

\* C18 witness: a page rendered with the offsets -30, 7, 5, 10 and a gap
\* other than the default.
C18_Witness ==
    /\ Rendered
    /\ cfg.offsets["chineseName"] = 0 - 30
    /\ cfg.globalSpacing = 0
    /\ FieldOut(1, 2, "chineseName").translateY = 0 - 5
    /\ FieldOut(1, 2, "englishCompany").translateY = 0

(***************************************************************************)
(* Properties of the font store and of failed requests.                    *)
(***************************************************************************)
\* The name ends in .ttf, .otf, .woff or .woff2.
EndsWith(f, suf) ==
    Len(f) >= Len(suf) /\ SubSeq(f, Len(f) - Len(suf) + 1, Len(f)) = suf

AcceptedExtension(f) ==
    \/ EndsWith(f, <<46, 116, 116, 102>>)
    \/ EndsWith(f, <<46, 111, 116, 102>>)
    \/ EndsWith(f, <<46, 119, 111, 102, 102>>)
    \/ EndsWith(f, <<46, 119, 111, 102, 102, 50>>)

\* C13: when the server handles the upload of a file whose extension is
\* not .ttf, .otf, .woff or .woff2, the answer carries no font and
\* FONTS_DIR holds exactly the files it held before.
C13_UnsupportedUploadRejected ==
    [][ lastOp'.op = "serveUploadFont" =>
            \A j \in fontJobs :
                (j.id = lastOp'.id
                    /\ ~AcceptedExtension(j.files[j.i].originalname)) =>
                    /\ fontsDir' = fontsDir
                    /\ \A j2 \in fontJobs' : j2.id = j.id => j2.res = <<>>
      ]_vars

\* The display name of a stored file: its name up to the first dot.
DisplayName(f) ==
    IF \E k \in DOMAIN f : f[k] = 46
    THEN SubSeq(f, 1, (CHOOSE k \in DOMAIN f :
                          f[k] = 46 /\ \A m \in 1..(k - 1) : f[m] # 46) - 1)
    ELSE f

\* After the step that lists an uploaded font, the client's list holds
\* exactly one entry with its display name, the uploaded one, and the
\* entries of other names are kept.
RegisteredOnce ==
    lastOp'.op = "fontRegistered" =>
        \A j \in fontJobs :
            j.id = lastOp'.id =>
                LET font == j.res[1]
                IN  /\ Cardinality({k \in DOMAIN customFonts' :
                           customFonts'[k].name = font.name}) = 1
                    /\ \E k \in DOMAIN customFonts' : customFonts'[k] = font
                    /\ \A k \in DOMAIN customFonts :
                           customFonts[k].name # font.name =>
                               \E m \in DOMAIN customFonts' :
                                   customFonts'[m] = customFonts[k]

C19_FailureLeavesClientState ==
    [][ lastOp'.op = "requestFailed" =>
            /\ alerts' = alerts + 1
            /\ presets' = presets
            /\ currentPresetId' = currentPresetId
            /\ customFonts' = customFonts
            /\ inflight' \subseteq inflight
            /\ deletes' \subseteq deletes
            /\ \A j2 \in fontJobs' \ fontJobs :
                   \E j \in fontJobs : j.id = j2.id /\ j2.i = j.i + 1
      ]_vars

\* C19 witness: two requests have failed, the second just now, while the
\* client holds a preset list and a font list.
C19_Witness ==
    /\ lastOp.op = "requestFailed"
    /\ alerts = 2
    /\ presets # <<>>
    /\ customFonts # <<>>

\* Every font of the fetched list is registered with the document or has
\* failed to load, and the loop is over.
FontsSettled ==
    /\ fontLoad.pc = "done"
    /\ \A k \in DOMAIN fontLoad.list :
           \/ k \in fontLoad.failed
           \/ \E face \in docFonts :
                  /\ face.family = fontLoad.list[k].name
                  /\ face.url = fontLoad.list[k].url

\* C20: in every state, whatever the position of loadFonts, the page list
\* can be rendered; and once the font list is fetched, every font of it
\* is eventually registered or failed, the fonts after a failed one
\* included.
C20_FontLoadNeverBlocks ==
    /\ []((Mounted /\ Len(cards) > 0) => ENABLED RenderScreen)
    /\ [](fontLoad.pc \in {"responded", "loading"} => <>FontsSettled)

\* C20 witness: the pages were rendered while the loop was at the second
\* font, the first having failed.
C20_Witness ==
    /\ view.medium = "screen"
    /\ fontLoad.pc = "loading"
    /\ fontLoad.i = 2
    /\ fontLoad.failed = {1}
    /\ lastOp.op = "other"

(***************************************************************************)
(* C21: every change of the layout state (a size, offset, font, tracking,  *)
(* spacing or crop-offset edit, or a load) leaves the preset list as it    *)
(* was: the settings of a saved or loaded preset p are not changed by      *)
(* edits made after the save or the load, although the layout state held   *)
(* the very objects of p.settings.                                         *)
(***************************************************************************)
C21_EditsLeavePresets == [][cfg' # cfg => presets' = presets]_vars

\* The current preset shared its fontSize object with the layout state, and
\* an edit has since replaced the object of the layout state.
C21_Witness ==
    \E i \in DOMAIN presets :
        /\ presets[i].id = currentPresetId
        /\ refs.held[i].fontSize # refs.state.fontSize
        /\ refs.held[i].offsets = refs.state.offsets
        /\ presets[i].settings.fontSize # cfg.fontSize
        /\ presets[i].settings.fontSize = presets[i].savedFrom[1].fontSize

\* The handler that moves from awaiting fs.writeJson to its answer in this
\* step had the stored list unchanged since it read it: no other request
\* wrote in between (the requests were processed one at a time).
WroteAlone(h) ==
    /\ h \in handlers
    /\ h.pc = "writing"
    /\ [h EXCEPT !.pc = "answered"] \in handlers'
    /\ h.local = IF h.kind = "post" THEN ServerUpsert(db, h.body[1])
                 ELSE FilterOutPreset(db, h.id)

IdsOf(list) == {list[i].id : i \in DOMAIN list}
NoTwoShareId(list) ==
    \A i, j \in DOMAIN list : list[i].id = list[j].id => i = j

(***************************************************************************)
(* C22: for preset-store requests processed one at a time, an upsert of a  *)
(* stored id replaces that entry in place (same length, every other entry  *)
(* and the order unchanged), an upsert of a new id appends it at the end,  *)
(* a delete removes every entry with the id, leaves the others in order    *)
(* and answers success also when none has the id; and at all times no two  *)
(* stored presets share an id.                                             *)
(***************************************************************************)
C22_StoreUpsertDelete ==
    /\ [](NoTwoShareId(db))
    /\ [][\A h \in handlers : WroteAlone(h) =>
            IF h.kind = "post"
            THEN IF h.id \in IdsOf(db)
                 THEN /\ Len(db') = Len(db)
                      /\ \A i \in DOMAIN db :
                            db'[i] = IF db[i].id = h.id THEN h.body[1]
                                     ELSE db[i]
                 ELSE db' = Append(db, h.body[1])
            ELSE /\ h.id \notin IdsOf(db')
                 /\ db' = SelectSeq(db, LAMBDA p : p.id # h.id)
                 /\ (h.id \notin IdsOf(db) => db' = db)
         ]_vars

\* Among the answered requests are a replacement of the first stored preset
\* and a delete of an id that no stored preset has; the second stored
\* preset is as it was.
C22_Witness ==
    /\ Len(db) = 2
    /\ db[1].name = "B"
    /\ db[2] = ExplicitPreset
    /\ \E h \in handlers : h.kind = "delete" /\ h.id = "f9"
                           /\ h.pc = "answered"
    /\ \E h \in handlers : h.kind = "post" /\ h.pc = "answered"
                           /\ h.body[1].name = "B"

(***************************************************************************)
(* C26: no preset-store update is lost under concurrent requests: once     *)
(* every received request has answered success, the stored list reflects   *)
(* each of them: the body of a POST is stored (when no other request       *)
(* names its id), and no stored preset has the id of a DELETE (when no     *)
(* POST names that id).                                                    *)
(***************************************************************************)
C26_NoLostUpdate ==
    (\A h \in handlers : h.pc = "answered") =>
        \A h \in handlers :
            (\A g \in handlers : g.id = h.id => g = h) =>
                IF h.kind = "post"
                THEN \E i \in DOMAIN db : db[i] = h.body[1]
                ELSE h.id \notin IdsOf(db)

\* The characters the stored name may hold: ASCII letters and digits,
\* underscore, full stop, U+4E00..U+9FA5.
AllowedInName(c) ==
    \/ c \in 65..90 \/ c \in 97..122 \/ c \in 48..57
    \/ c = 95 \/ c = 46
    \/ c \in 19968..40869

(***************************************************************************)
(* C23: the stored file name of an uploaded font is the original name with *)
(* every character outside the allowed set replaced by one underscore:     *)
(* same length, every allowed character kept in place, no other character  *)
(* (so no "/" and no "\"); the file is in the fonts directory under that   *)
(* name.                                                                   *)
(***************************************************************************)
C23_StoredNameSanitised ==
    \A j \in fontJobs :
        (j.kind = "upload" /\ j.stage = "answered") =>
            LET o == j.files[j.i].originalname
                s == j.res[1].fileName
            IN  /\ Len(s) = Len(o)
                /\ \A i \in DOMAIN o :
                      s[i] = IF AllowedInName(o[i]) THEN o[i] ELSE 95
                /\ \A i \in DOMAIN s : AllowedInName(s[i]) /\ s[i] \notin {47, 92}
                /\ lastOp.op = "serveUploadFont" =>
                      \E e \in fontsDir : e.fileName = s

\* An upload named "/" followed by U+9FA5 was stored as "_" followed by
\* U+9FA5.
C23_Witness ==
    \E j \in fontJobs :
        /\ j.kind = "upload" /\ j.stage = "answered"
        /\ j.files[j.i].originalname = <<47, 40869>>
        /\ j.res[1].fileName = <<95, 40869>>
        /\ \E e \in fontsDir : e.fileName = <<95, 40869>>

(***************************************************************************)
(* C25: a DELETE of a font removes at most the named file of the fonts     *)
(* directory: whatever the fileName parameter, ".." segments and           *)
(* separators included, no file outside the fonts directory (db.json) is   *)
(* removed, and every font file that goes had the parameter as its name.   *)
(***************************************************************************)
C25_DeleteStaysInFontsDir ==
    [][lastOp'.op = "deleteFontRequest" =>
          /\ dataFiles' = dataFiles
          /\ \A e \in fontsDir \ fontsDir' :
                \E param \in DeleteParams :
                    param.text = lastOp'.id /\ param.units = e.fileName
      ]_vars

\* The text of a present cell.
CellText(cell) == IF IsNumberCell(cell) THEN NumberText(cell[2]) ELSE cell[1]

\* The alias lists as the statement gives them.
StatedAliases(f) ==
    CASE f = "chineseName" -> <<"cnName", "Name", "xingming">>
      [] f = "englishName" -> <<"enName", "EnglishName", "pinyin">>
      [] f = "chineseCompany" -> <<"cnCompany", "Company", "danwei">>
      [] f = "englishCompany" -> <<"enCompany", "EnglishCompany">>

\* The value of the first header of hs for which test holds of the row's
\* cell, the empty text when there is none.
FirstHeaderValue(item, hs, test(_)) ==
    IF \E k \in DOMAIN hs : test(item[hs[k]])
    THEN CellText(item[hs[CHOOSE k \in DOMAIN hs :
                              /\ test(item[hs[k]])
                              /\ \A m \in 1..(k - 1) : ~test(item[hs[m]])]])
    ELSE <<>>

IsPresent(cell) == cell # None
IsUsable(cell) ==
    /\ cell # None
    /\ cell # Some(<<>>)
    /\ cell # NumberCell(0)

\* The step completes the read r, and the last Len(r.data) records of the
\* new list are the rows of r.data in row order, each field being the value
\* of the first header of its alias list that satisfies test; when the
\* list is as it was when the file was chosen, the new list is the list
\* followed by those records.
ImportedBy(r, test(_)) ==
    (r \in reading /\ reading' = reading \ {r}) =>
        LET n == Len(r.data)
            base == Len(cards') - n
        IN  /\ base >= 0
            /\ \A k \in 1..n : \A f \in Fields :
                  cards'[base + k][f] =
                      FirstHeaderValue(r.data[k], StatedAliases(f), test)
            /\ (r.cards = cards => SubSeq(cards', 1, base) = cards)

C29_ImportKeepsConcurrentEdits ==
    [][\A r \in reading :
          (reading' = reading \ {r}) =>
              /\ Len(cards') = Len(cards) + Len(r.data)
              /\ SubSeq(cards', 1, Len(cards)) = cards
      ]_vars

\* No request of the client is in flight and none has failed.
Quiescent ==
    /\ startup.pc = "done"
    /\ inflight = {}
    /\ deletes = {}
    /\ alerts = 0

(***************************************************************************)
(* C27: with one client and no failed request, once every request in       *)
(* flight has completed the client's preset list holds exactly the presets *)
(* of the server store, whatever the order in which the startup fetch, the *)
(* saves and the deletes completed.                                        *)
(***************************************************************************)
C27_ClientListMatchesStore ==
    Quiescent =>
        {presets[i] : i \in DOMAIN presets} = {db[i] : i \in DOMAIN db}

(***************************************************************************)
(* C28: in every reachable client state currentPresetId is the empty       *)
(* string or the id of a preset of the client's preset list, whatever the  *)
(* interleaving of loadPreset, resetToDefault, savePreset, deletePreset    *)
(* and the startup fetch.                                                  *)
(***************************************************************************)
C28_CurrentPresetListed ==
    \/ currentPresetId = ""
    \/ \E i \in DOMAIN presets : presets[i].id = currentPresetId

NoTwoShareName(list) ==
    \A i, j \in DOMAIN list : list[i].name = list[j].name => i = j

(***************************************************************************)
(* C30: after any sequence of savePreset operations of one client,         *)
(* interleaved with the startup fetch, neither the client's preset list    *)
(* nor the server store holds two presets with the same name (a save under *)
(* the name of an existing preset reuses its id and replaces it).          *)
(***************************************************************************)
C30_NamesUnique == NoTwoShareName(presets) /\ NoTwoShareName(db)

=============================================================================
